---- MODULE Spec2Model ----
(***************************************************************************)
(* Model of the asynchronous task pipeline of the Slack data-query bot:    *)
(*   - the Redis task queue            (src/src/services/queue.py)         *)
(*   - the MCP circuit breaker         (src/src/services/mcp_client.py)    *)
(*   - the plan execution engine       (src/src/agents/nodes/              *)
(*                                      data_retrieval.py)                 *)
(*   - the MCP client's tool call      (src/src/services/mcp_client.py)    *)
(* Each component has its own specification (QueueSpec, BreakerSpec,       *)
(* EngineSpec, ToolSpec; DeliverySpec and FailingSpec are the queue under  *)
(* fair scheduling); the variables of the other components stay at their   *)
(* initial values.                                                         *)
(***************************************************************************)
EXTENDS Integers, Sequences, FiniteSets, TLC

VARIABLES
    \* ---- task queue (Redis keys of TaskQueue) ----
    now,          \* datetime.utcnow().timestamp(), in seconds
    nextId,       \* number of task ids handed out by enqueue (uuid4 is fresh)
    ready,        \* list  "slack_bot_tasks"            (index 1 = head/left)
    delayed,      \* zset  "slack_bot_tasks:delayed"    (set of [task, score])
    processing,   \* list  "slack_bot_tasks:processing"
    failed,       \* list  "slack_bot_tasks:failed"
    wpc,          \* position of each worker in process_tasks ("sleep": in
                  \* the outer except clause; "terminated": the loop was left)
    snap,         \* per worker: result of zrangebyscore in _process_delayed_tasks
    cur,          \* per worker: the task_json brpop returned / being handled
    found,        \* per worker: task_json found by _remove_from_processing
    returned,     \* per id: dequeue returns since the last rescheduling fail
    fails,        \* per id: fail_task calls that found the task in processing
    completed,    \* ids whose complete_task removed them from processing
    target,       \* per id: score under which enqueue delayed it (NotDelayed
                  \* if enqueue put it on the ready list)
    handled,      \* ids of the tasks on which a registered handler was executed
    \* ---- circuit breaker (MCPCircuitBreaker, one shared instance) ----
    clock,        \* time.time(), in seconds
    breaker,      \* [state, failure_count, last_failure_time]
    cpc,          \* per caller: "idle" or "in_call" (wrapped function in flight)
    cadm,         \* per caller: how its current/last call was admitted
    cres,         \* per caller: how its last call ended
    recorded,     \* per caller: step_results[tool_name]["error"] of its last
                  \* tool call, str(e) of the MCPError caught (NoText = none)
    \* ---- execution engine (execute_sequential_plan / execute_step) ----
    nsteps,       \* len(plan.steps)
    plan,         \* the steps of plan.steps the for loop has read so far
    results,      \* results map: step id -> step result (NoResult = absent)
    epc,          \* position of the engine: "check", "tool", "done", or
                  \* "raised" once an exception has escaped plan execution
    si,           \* index of the step the for loop is at
    ti,           \* index of the next tool call of the running step
    step_results, \* step_results of the running step: tool -> result
    session,      \* MCPClient._session (NoSession = None)
    nSessions,    \* number of aiohttp.ClientSession objects created so far
    invoked,      \* <<step, tool>> pairs whose tool call has been invoked
    ptask,        \* parallel mode: per step, the asyncio task running execute_step
    \* ---- MCP client (one call of MCPClient.call_tool) ----
    retries,      \* actual_retries
    attempt,      \* the loop variable of "for attempt in range(...)"
    requests,     \* outcome of each request posted so far, in order
    last_error,   \* last_error (the outcome that raised it, "none" = None)
    tpc,          \* position in call_tool: "idle", "request", "sleep",
                  \* "returned", "raised"
    raised,       \* type of the exception call_tool raised ("none" if none)
    message,      \* the error whose message the raised MCPError embeds
    \* ---- agent workflow (AgentState passed between the graph's nodes) ----
    node,         \* the node of the workflow graph that runs next
    s_intent,     \* state["intent"]
    s_data_sources, \* state["data_sources"] (<<>> = None)
    execution_plan, \* state["execution_plan"] (NoPlan = None)
    mcp_results,  \* state["mcp_results"]
    error,        \* state["error"] (NoError = None)
    new_plan,     \* the plan create_execution_plan returned in this run
    uuids,        \* number of uuid4 values drawn so far (each one is fresh)
    calls,        \* remote tool calls issued in this run of the workflow
    runs,         \* number of runs of the workflow started on the intent
    first_plan    \* the plan create_execution_plan returned in the first run

qvars == <<now, nextId, ready, delayed, processing, failed, wpc, snap, cur,
           found, returned, fails, completed, target, handled>>

bvars == <<clock, breaker, cpc, cadm, cres, recorded>>

evars == <<nsteps, plan, results, epc, si, ti, step_results, session, nSessions,
           invoked, ptask>>

tvars == <<retries, attempt, requests, last_error, tpc, raised, message>>

wvars == <<node, s_intent, s_data_sources, execution_plan, mcp_results, error,
           new_plan, uuids, calls, runs, first_plan>>

vars == <<qvars, bvars, evars, tvars, wvars>>

-----------------------------------------------------------------------------
(* Bounds of the model *)

MaxTasks == 2
MaxRetries == 3
MaxTime == 10
TickStep == 10
MaxRetryCount == 2

(* Program constants *)

BackoffBase == 10

-----------------------------------------------------------------------------
(* Task queue *)

Workers == {"slack_processor", "agent_processor"}

TaskTypes == {"process_slack_event", "process_agent_query"}

TaskIds == 1..MaxTasks

\* priority passed by the producers for each task type
\* (api/slack_webhooks.py: 2 for Slack events, workers/slack_processor.py:
\* 1 for agent queries)
PriorityOf(type) == IF type = "process_slack_event" THEN 2 ELSE 1

Delays == {0, BackoffBase}

\* task_handlers of each worker process after its register_handler calls
Handlers(w) ==
    IF w = "slack_processor" THEN {"process_slack_event", "process_slack_command"}
    ELSE {"process_agent_query"}

\* enqueue with delay_seconds = 0: the task has no score in the delayed set
NotDelayed == -1

\* The value of "no task_json" (None)
NoTask == [id |-> 0, type |-> "none", priority |-> 0, retry_count |-> 0,
           max_retries |-> 0, failed_at |-> -1]

\* task_data as serialised by json.dumps: two task_json strings are equal
\* exactly when these fields are equal (payload and created_at are fixed
\* per id, last_error is fixed per failure time).
NewTask(id, type, priority, retry_count) ==
    [id |-> id, type |-> type, priority |-> priority,
     retry_count |-> retry_count, max_retries |-> retry_count,
     failed_at |-> -1]

\* LPUSH key value
LPush(list, x) == <<x>> \o list

\* LREM key 1 value: removes the first occurrence counted from the head
RECURSIVE LRem1(_, _)
LRem1(list, x) ==
    IF list = <<>> THEN <<>>
    ELSE IF Head(list) = x THEN Tail(list)
    ELSE <<Head(list)>> \o LRem1(Tail(list), x)

\* ZADD key {member: score}: a member is stored once, its score replaced
ZAdd(zset, t, score) ==
    {e \in zset : e.task # t} \cup {[task |-> t, score |-> score]}

\* ZREM key member
ZRem(zset, t) == {e \in zset : e.task # t}

\* Order of a sorted set: by score, ties by the member's bytes (the JSON text
\* starts with the id, then retry_count, then failed_at distinguish members)
ZLess(a, b) ==
    \/ a.score < b.score
    \/ /\ a.score = b.score
       /\ \/ a.task.id < b.task.id
          \/ /\ a.task.id = b.task.id
             /\ \/ a.task.retry_count < b.task.retry_count
                \/ /\ a.task.retry_count = b.task.retry_count
                   /\ a.task.failed_at < b.task.failed_at

\* ZRANGEBYSCORE key 0 max: the members with score <= max, in zset order
RECURSIVE ZSorted(_)
ZSorted(S) ==
    IF S = {} THEN <<>>
    ELSE LET m == CHOOSE e \in S : \A o \in S \ {e} : ZLess(e, o)
         IN <<m.task>> \o ZSorted(S \ {m})

\* faulty variant of zrangebyscore: no member is ever read
ZRangeNothing(zset, max) == <<>>

\* faulty variant of zrangebyscore: every member, whatever its score
ZRangeIgnoringScore(zset, max) == ZSorted(zset)

ZRangeByScore(zset, max) == ZSorted({e \in zset : e.score <= max})

\* pipe.lpush(queue, task_json); pipe.zrem(delayed, task_json) for each task
RECURSIVE PipeLPush(_, _)
PipeLPush(list, tasks) ==
    IF tasks = <<>> THEN list
    ELSE PipeLPush(LPush(list, Head(tasks)), Tail(tasks))

RECURSIVE PipeZRem(_, _)
PipeZRem(zset, tasks) ==
    IF tasks = <<>> THEN zset
    ELSE PipeZRem(ZRem(zset, Head(tasks)), Tail(tasks))

\* the for loop of _remove_from_processing over LRANGE key 0 -1
RECURSIVE FindById(_, _)
FindById(list, id) ==
    IF list = <<>> THEN NoTask
    ELSE IF Head(list).id = id THEN Head(list)
    ELSE FindById(Tail(list), id)

\* task_data after fail_task's update (retry_count -= 1, failed_at = utcnow)
FailedData(t, time) == [t EXCEPT !.retry_count = t.retry_count - 1,
                                 !.failed_at = time]

\* fail_task: retry while the decremented retry_count is positive
ShouldRetry(t) == t.retry_count > 0

\* faulty variant of the backoff: linear in the number of failures
BackoffDelayLinear(t) == (t.max_retries - t.retry_count) * BackoffBase

\* delay = (max_retries - retry_count) ** 2 * 10
BackoffDelay(t) ==
    (t.max_retries - t.retry_count) * (t.max_retries - t.retry_count) * BackoffBase

\* the value fail_task returns: False when _remove_from_processing found
\* nothing, True after a reschedule, False after the move to the failed list
FailTaskReturn(task_json) ==
    IF task_json = NoTask THEN FALSE
    ELSE ShouldRetry(FailedData(task_json, 0))

QueueFresh ==
    /\ now = 0
    /\ nextId = 0
    /\ ready = <<>>
    /\ delayed = {}
    /\ processing = <<>>
    /\ failed = <<>>
    /\ wpc = [w \in Workers |-> "idle"]
    /\ snap = [w \in Workers |-> <<>>]
    /\ cur = [w \in Workers |-> NoTask]
    /\ found = [w \in Workers |-> NoTask]
    /\ returned = [i \in TaskIds |-> 0]
    /\ fails = [i \in TaskIds |-> 0]
    /\ completed = {}
    /\ target = [i \in TaskIds |-> NotDelayed]
    /\ handled = {}

\* time passes
Tick ==
    /\ now + TickStep <= MaxTime
    /\ now' = now + TickStep
    /\ UNCHANGED <<nextId, ready, delayed, processing, failed, wpc, snap, cur,
                   found, returned, fails, completed>>
    /\ UNCHANGED <<target, handled>>
    /\ UNCHANGED <<bvars, evars, tvars, wvars>>

\* time passes while a task in the delayed set waits for its target time
Advance ==
    /\ \E e \in delayed : e.score > now
    /\ now' = now + TickStep
    /\ UNCHANGED <<nextId, ready, delayed, processing, failed, wpc, snap, cur,
                   found, returned, fails, completed>>
    /\ UNCHANGED <<target, handled>>
    /\ UNCHANGED <<bvars, evars, tvars, wvars>>

\* TaskQueue.enqueue
Enqueue(type, delay_seconds, retry_count) ==
    /\ nextId < MaxTasks
    /\ nextId' = nextId + 1
    /\ LET t == NewTask(nextId + 1, type, PriorityOf(type), retry_count)
       IN IF delay_seconds > 0
          THEN /\ delayed' = ZAdd(delayed, t, now + delay_seconds)
               /\ ready' = ready
          ELSE /\ ready' = LPush(ready, t)
               /\ delayed' = delayed
    /\ target' = [target EXCEPT ![nextId + 1] =
                      IF delay_seconds > 0 THEN now + delay_seconds
                      ELSE NotDelayed]
    /\ UNCHANGED <<now, processing, failed, wpc, snap, cur, found, returned,
                   fails, completed, handled>>
    /\ UNCHANGED <<bvars, evars, tvars, wvars>>

\* dequeue -> _process_delayed_tasks: zrangebyscore(delayed, 0, now)
Scan(w) ==
    /\ wpc[w] = "idle"
    /\ snap' = [snap EXCEPT ![w] = ZRangeByScore(delayed, now)]
    /\ wpc' = [wpc EXCEPT ![w] = IF snap'[w] # <<>> THEN "promote" ELSE "pop"]
    /\ UNCHANGED <<now, nextId, ready, delayed, processing, failed, cur, found,
                   returned, fails, completed>>
    /\ UNCHANGED <<target, handled>>
    /\ UNCHANGED <<bvars, evars, tvars, wvars>>

\* _process_delayed_tasks: pipe.execute() of the queued lpush/zrem pairs
Promote(w) ==
    /\ wpc[w] = "promote"
    /\ ready' = PipeLPush(ready, snap[w])
    /\ delayed' = PipeZRem(delayed, snap[w])
    /\ snap' = [snap EXCEPT ![w] = <<>>]
    /\ wpc' = [wpc EXCEPT ![w] = "pop"]
    /\ UNCHANGED <<now, nextId, processing, failed, cur, found, returned,
                   fails, completed>>
    /\ UNCHANGED <<target, handled>>
    /\ UNCHANGED <<bvars, evars, tvars, wvars>>

\* faulty variant of brpop: the tail is read and left in the list
PopKeeps(w) ==
    /\ wpc[w] = "pop"
    /\ ready # <<>>
    /\ cur' = [cur EXCEPT ![w] = ready[Len(ready)]]
    /\ wpc' = [wpc EXCEPT ![w] = "push"]
    /\ UNCHANGED <<now, nextId, ready, delayed, processing, failed, snap, found,
                   returned, fails, completed>>
    /\ UNCHANGED <<target, handled>>
    /\ UNCHANGED <<bvars, evars, tvars, wvars>>

\* dequeue: brpop returns the tail of the ready list
Pop(w) ==
    /\ wpc[w] = "pop"
    /\ ready # <<>>
    /\ cur' = [cur EXCEPT ![w] = ready[Len(ready)]]
    /\ ready' = SubSeq(ready, 1, Len(ready) - 1)
    /\ wpc' = [wpc EXCEPT ![w] = "push"]
    /\ UNCHANGED <<now, nextId, delayed, processing, failed, snap, found,
                   returned, fails, completed>>
    /\ UNCHANGED <<target, handled>>
    /\ UNCHANGED <<bvars, evars, tvars, wvars>>

\* dequeue: brpop times out on an empty list, dequeue returns None
PopTimeout(w) ==
    /\ wpc[w] = "pop"
    /\ ready = <<>>
    /\ wpc' = [wpc EXCEPT ![w] = "idle"]
    /\ UNCHANGED <<now, nextId, ready, delayed, processing, failed, snap, cur,
                   found, returned, fails, completed>>
    /\ UNCHANGED <<target, handled>>
    /\ UNCHANGED <<bvars, evars, tvars, wvars>>

\* faulty variant of dequeue: the processing list is overwritten, not pushed
PushReplaces(w) ==
    /\ wpc[w] = "push"
    /\ processing' = <<cur[w]>>
    /\ returned' = [returned EXCEPT ![cur[w].id] = IF @ < 2 THEN @ + 1 ELSE @]
    /\ wpc' = [wpc EXCEPT ![w] = "handle"]
    /\ UNCHANGED <<now, nextId, ready, delayed, failed, snap, cur, found,
                   fails, completed>>
    /\ UNCHANGED <<target, handled>>
    /\ UNCHANGED <<bvars, evars, tvars, wvars>>

\* dequeue: lpush(processing_queue, task_json); return task_data
Push(w) ==
    /\ wpc[w] = "push"
    /\ processing' = LPush(processing, cur[w])
    /\ returned' = [returned EXCEPT ![cur[w].id] = IF @ < 2 THEN @ + 1 ELSE @]
    /\ wpc' = [wpc EXCEPT ![w] = "handle"]
    /\ UNCHANGED <<now, nextId, ready, delayed, failed, snap, cur, found,
                   fails, completed>>
    /\ UNCHANGED <<target, handled>>
    /\ UNCHANGED <<bvars, evars, tvars, wvars>>

\* process_tasks: worker w holds a task of a type it has a handler for and
\* has not yet left "await handler(task["payload"])": the handler is executed
HandlerRuns(w) == wpc[w] = "handle" /\ cur[w].type \in Handlers(w)

\* process_tasks: the handler returned; complete_task -> lrange of
\* _remove_from_processing
CompleteFind(w) ==
    /\ wpc[w] = "handle"
    /\ cur[w].type \in Handlers(w)
    /\ found' = [found EXCEPT ![w] = FindById(processing, cur[w].id)]
    /\ wpc' = [wpc EXCEPT ![w] = IF found'[w] = NoTask THEN "complete_store"
                                 ELSE "complete_lrem"]
    /\ UNCHANGED <<now, nextId, ready, delayed, processing, failed, snap, cur,
                   returned, fails, completed>>
    /\ UNCHANGED target
    /\ handled' = handled \cup {cur[w].id}
    /\ UNCHANGED <<bvars, evars, tvars, wvars>>

\* complete_task: lrem(processing_queue, 1, task_json)
CompleteRemove(w) ==
    /\ wpc[w] = "complete_lrem"
    /\ processing' = LRem1(processing, found[w])
    /\ completed' = completed \cup {cur[w].id}
    /\ wpc' = [wpc EXCEPT ![w] = "complete_store"]
    /\ found' = [found EXCEPT ![w] = NoTask]
    /\ UNCHANGED <<now, nextId, ready, delayed, failed, snap, cur, returned,
                   fails>>
    /\ UNCHANGED <<target, handled>>
    /\ UNCHANGED <<bvars, evars, tvars, wvars>>

\* complete_task: the result is stored (setex) or is None; "Task completed"
CompleteStore(w) ==
    /\ wpc[w] = "complete_store"
    /\ wpc' = [wpc EXCEPT ![w] = "idle"]
    /\ cur' = [cur EXCEPT ![w] = NoTask]
    /\ UNCHANGED <<now, nextId, ready, delayed, processing, failed, snap,
                   found, returned, fails, completed>>
    /\ UNCHANGED <<target, handled>>
    /\ UNCHANGED <<bvars, evars, tvars, wvars>>

\* process_tasks: no handler for the type, or the handler raised, or
\* complete_task raised while storing the result (json.dumps or setex);
\* fail_task -> lrange of _remove_from_processing
FailFind(w) ==
    /\ wpc[w] \in {"handle", "complete_store"}
    /\ found' = [found EXCEPT ![w] = FindById(processing, cur[w].id)]
    /\ wpc' = [wpc EXCEPT ![w] = IF found'[w] = NoTask THEN "fail_notfound"
                                 ELSE "fail_lrem"]
    /\ UNCHANGED <<now, nextId, ready, delayed, processing, failed, snap, cur,
                   returned, fails, completed>>
    /\ UNCHANGED target
    /\ handled' = IF HandlerRuns(w) THEN handled \cup {cur[w].id} ELSE handled
    /\ UNCHANGED <<bvars, evars, tvars, wvars>>

\* faulty variant of the not-found branch: the task is put back on the list
FailNotFoundRequeues(w) ==
    /\ wpc[w] = "fail_notfound"
    /\ ready' = LPush(ready, cur[w])
    /\ wpc' = [wpc EXCEPT ![w] = "idle"]
    /\ cur' = [cur EXCEPT ![w] = NoTask]
    /\ UNCHANGED <<now, nextId, delayed, processing, failed, snap,
                   found, returned, fails, completed>>
    /\ UNCHANGED <<target, handled>>
    /\ UNCHANGED <<bvars, evars, tvars, wvars>>

\* fail_task: task_json is None: "Task not found in processing queue",
\* return False
FailNotFound(w) ==
    /\ wpc[w] = "fail_notfound"
    /\ wpc' = [wpc EXCEPT ![w] = "idle"]
    /\ cur' = [cur EXCEPT ![w] = NoTask]
    /\ UNCHANGED <<now, nextId, ready, delayed, processing, failed, snap,
                   found, returned, fails, completed>>
    /\ UNCHANGED <<target, handled>>
    /\ UNCHANGED <<bvars, evars, tvars, wvars>>

\* fail_task: lrem(processing_queue, 1, task_json)
FailRemove(w) ==
    /\ wpc[w] = "fail_lrem"
    /\ processing' = LRem1(processing, found[w])
    /\ wpc' = [wpc EXCEPT ![w] = "fail_store"]
    /\ UNCHANGED <<now, nextId, ready, delayed, failed, snap, cur, found,
                   returned, fails, completed>>
    /\ UNCHANGED <<target, handled>>
    /\ UNCHANGED <<bvars, evars, tvars, wvars>>

\* faulty variant of fail_task: a task out of retries is stored nowhere
FailStoreDrops(w) ==
    /\ wpc[w] = "fail_store"
    /\ LET t == FailedData(found[w], now)
       IN /\ IF ShouldRetry(t)
             THEN /\ delayed' = ZAdd(delayed, t, now + BackoffDelay(t))
                  /\ returned' = [returned EXCEPT ![t.id] = 0]
             ELSE /\ delayed' = delayed
                  /\ returned' = returned
          /\ fails' = [fails EXCEPT ![t.id] = @ + 1]
    /\ wpc' = [wpc EXCEPT ![w] = "idle"]
    /\ cur' = [cur EXCEPT ![w] = NoTask]
    /\ found' = [found EXCEPT ![w] = NoTask]
    /\ UNCHANGED <<now, nextId, ready, processing, failed, snap, completed>>
    /\ UNCHANGED <<target, handled>>
    /\ UNCHANGED <<bvars, evars, tvars, wvars>>

\* fail_task: decrement, then zadd(delayed) with backoff or lpush(failed_queue)
FailStore(w) ==
    /\ wpc[w] = "fail_store"
    /\ LET t == FailedData(found[w], now)
       IN /\ IF ShouldRetry(t)
             THEN /\ delayed' = ZAdd(delayed, t, now + BackoffDelay(t))
                  /\ failed' = failed
                  /\ returned' = [returned EXCEPT ![t.id] = 0]
             ELSE /\ failed' = LPush(failed, t)
                  /\ delayed' = delayed
                  /\ returned' = returned
          /\ fails' = [fails EXCEPT ![t.id] = @ + 1]
    /\ wpc' = [wpc EXCEPT ![w] = "idle"]
    /\ cur' = [cur EXCEPT ![w] = NoTask]
    /\ found' = [found EXCEPT ![w] = NoTask]
    /\ UNCHANGED <<now, nextId, ready, processing, snap, completed>>
    /\ UNCHANGED <<target, handled>>
    /\ UNCHANGED <<bvars, evars, tvars, wvars>>

QueueNext ==
    \/ Tick
    \/ \E type \in TaskTypes, delay_seconds \in Delays,
          retry_count \in 1..MaxRetries :
          Enqueue(type, delay_seconds, retry_count)
    \/ \E w \in Workers : Scan(w)
    \/ \E w \in Workers : Promote(w)
    \/ \E w \in Workers : Pop(w)
    \/ \E w \in Workers : PopTimeout(w)
    \/ \E w \in Workers : Push(w)
    \/ \E w \in Workers : CompleteFind(w)
    \/ \E w \in Workers : CompleteRemove(w)
    \/ \E w \in Workers : CompleteStore(w)
    \/ \E w \in Workers : FailFind(w)
    \/ \E w \in Workers : FailNotFound(w)
    \/ \E w \in Workers : FailRemove(w)
    \/ \E w \in Workers : FailStore(w)

\* complete_task: lrem raises (Redis error); the inner "except Exception" of
\* process_tasks calls fail_task -> lrange of _remove_from_processing
CompleteRemoveRaises(w) ==
    /\ wpc[w] = "complete_lrem"
    /\ found' = [found EXCEPT ![w] = FindById(processing, cur[w].id)]
    /\ wpc' = [wpc EXCEPT ![w] = IF found'[w] = NoTask THEN "fail_notfound"
                                 ELSE "fail_lrem"]
    /\ UNCHANGED <<now, nextId, ready, delayed, processing, failed, snap, cur,
                   returned, fails, completed>>
    /\ UNCHANGED <<target, handled>>
    /\ UNCHANGED <<bvars, evars, tvars, wvars>>

\* the positions of process_tasks whose next Redis command, if it raises,
\* raises into the outer "except Exception": the commands of dequeue, of the
\* fail_task for a missing handler, and of the fail_task called in the inner
\* except clause (which a raising handler or complete_task leads to)
RaisesToOuter ==
    {"idle", "promote", "pop", "push", "handle", "complete_lrem",
     "complete_store", "fail_lrem", "fail_store"}

\* faulty variant of the outer except clause: the error leaves process_tasks
OperationRaisesUncaught(w) ==
    /\ wpc[w] \in RaisesToOuter
    /\ wpc' = [wpc EXCEPT ![w] = "terminated"]
    /\ snap' = [snap EXCEPT ![w] = <<>>]
    /\ cur' = [cur EXCEPT ![w] = NoTask]
    /\ found' = [found EXCEPT ![w] = NoTask]
    /\ UNCHANGED <<now, nextId, ready, delayed, processing, failed, returned,
                   fails, completed>>
    /\ UNCHANGED target
    /\ handled' = IF HandlerRuns(w) THEN handled \cup {cur[w].id} ELSE handled
    /\ UNCHANGED <<bvars, evars, tvars, wvars>>

\* process_tasks: a Redis command of a queue operation raises and has no
\* effect; the outer "except Exception" logs "Task processor error" and
\* awaits asyncio.sleep(1); the locals of the iteration are gone
OperationRaises(w) ==
    /\ wpc[w] \in RaisesToOuter
    /\ wpc' = [wpc EXCEPT ![w] = "sleep"]
    /\ snap' = [snap EXCEPT ![w] = <<>>]
    /\ cur' = [cur EXCEPT ![w] = NoTask]
    /\ found' = [found EXCEPT ![w] = NoTask]
    /\ UNCHANGED <<now, nextId, ready, delayed, processing, failed, returned,
                   fails, completed>>
    /\ UNCHANGED target
    /\ handled' = IF HandlerRuns(w) THEN handled \cup {cur[w].id} ELSE handled
    /\ UNCHANGED <<bvars, evars, tvars, wvars>>

\* process_tasks: asyncio.sleep(1) returns, "while True" starts over
Resume(w) ==
    /\ wpc[w] = "sleep"
    /\ wpc' = [wpc EXCEPT ![w] = "idle"]
    /\ UNCHANGED <<now, nextId, ready, delayed, processing, failed, snap, cur,
                   found, returned, fails, completed>>
    /\ UNCHANGED <<target, handled>>
    /\ UNCHANGED <<bvars, evars, tvars, wvars>>

\* tasks enqueued in the runs with a running clock, and their retry budgets
LiveTasks == 1
LiveRetries == 2

\* TaskQueue.enqueue, for the first LiveTasks tasks
LiveEnqueue(type, delay_seconds, retry_count) ==
    /\ nextId < LiveTasks
    /\ Enqueue(type, delay_seconds, retry_count)

\* one step of worker w's process_tasks loop
WorkerStep(w) ==
    \/ Scan(w)
    \/ Promote(w)
    \/ Pop(w)
    \/ PopTimeout(w)
    \/ Push(w)
    \/ CompleteFind(w)
    \/ CompleteRemove(w)
    \/ CompleteStore(w)
    \/ FailFind(w)
    \/ FailNotFound(w)
    \/ FailRemove(w)
    \/ FailStore(w)

\* the queue with workers that keep polling and a clock that keeps running
DeliveryNext ==
    \/ Advance
    \/ \E type \in TaskTypes, delay_seconds \in Delays,
          retry_count \in 1..LiveRetries :
          LiveEnqueue(type, delay_seconds, retry_count)
    \/ \E w \in Workers : Scan(w)
    \/ \E w \in Workers : Promote(w)
    \/ \E w \in Workers : Pop(w)
    \/ \E w \in Workers : PopTimeout(w)
    \/ \E w \in Workers : Push(w)
    \/ \E w \in Workers : CompleteFind(w)
    \/ \E w \in Workers : CompleteRemove(w)
    \/ \E w \in Workers : CompleteStore(w)
    \/ \E w \in Workers : FailFind(w)
    \/ \E w \in Workers : FailNotFound(w)
    \/ \E w \in Workers : FailRemove(w)
    \/ \E w \in Workers : FailStore(w)

\* the queue whose Redis commands may raise
FaultNext ==
    \/ Tick
    \/ \E type \in TaskTypes, delay_seconds \in Delays,
          retry_count \in 1..LiveRetries :
          LiveEnqueue(type, delay_seconds, retry_count)
    \/ \E w \in Workers : WorkerStep(w)
    \/ \E w \in Workers : CompleteRemoveRaises(w)
    \/ \E w \in Workers : OperationRaises(w)
    \/ \E w \in Workers : Resume(w)

\* one step of worker w's process_tasks loop when every handler raises
FailingStep(w) ==
    \/ Scan(w)
    \/ Promote(w)
    \/ Pop(w)
    \/ PopTimeout(w)
    \/ Push(w)
    \/ FailFind(w)
    \/ FailRemove(w)
    \/ FailStore(w)

\* the queue when every execution of every handler raises
FailingNext ==
    \/ Advance
    \/ \E type \in TaskTypes, delay_seconds \in Delays,
          retry_count \in 1..LiveRetries :
          LiveEnqueue(type, delay_seconds, retry_count)
    \/ \E w \in Workers : Scan(w)
    \/ \E w \in Workers : Promote(w)
    \/ \E w \in Workers : Pop(w)
    \/ \E w \in Workers : PopTimeout(w)
    \/ \E w \in Workers : Push(w)
    \/ \E w \in Workers : FailFind(w)
    \/ \E w \in Workers : FailRemove(w)
    \/ \E w \in Workers : FailStore(w)

-----------------------------------------------------------------------------
(* Circuit breaker *)

\* MCPCircuitBreaker.__init__ defaults, used by get_circuit_breaker()
FailureThreshold == 5
RecoveryTimeout == 60

\* granularity and horizon of the breaker's clock
ClockStep == 30
MaxClock == 120

\* concurrent execute_step coroutines sharing the breaker
MaxCallers == 2
Callers == 1..MaxCallers

\* last_failure_time = None
NoTime == -1

\* no "error" member in the caller's tool result
NoText == <<>>

\* str(asyncio.TimeoutError()), the text of a last_error without message
TimeoutText == <<"">>

\* str(MCPError(f"MCP tool error: {error_info.get('message', ...)}")), with
\* the message the server sent
RpcErrorText(server_message) == <<"MCP", "tool", "error:">> \o server_message

\* call_tool: the message of the MCPError raised after the loop,
\* f"MCP tool call failed after {actual_retries + 1} attempts: {last_error}"
ExhaustedText(attempts, last) ==
    <<"MCP", "tool", "call", "failed", "after", ToString(attempts),
      "attempts:">> \o last

\* faulty variant of the breaker's message: the sentence of a call that
\* failed once by timeout
BreakerOpenTextAsFailure == ExhaustedText(1, TimeoutText)

\* MCPCircuitBreaker.call: the message of the MCPError raised when open
BreakerOpenText ==
    <<"Circuit", "breaker", "is", "open", "-", "MCP", "server", "unavailable">>

\* str(last_error) at the end of call_tool's loop: a timeout, or a JSON-RPC
\* error whose message, chosen by the server, is the breaker's sentence
LastErrorTexts == {TimeoutText, RpcErrorText(BreakerOpenText)}

\* the number of attempts in the message: 1 (retry_count 0) and the largest
AttemptCounts == {1, MaxRetryCount + 1}

\* MCPCircuitBreaker.__init__
NewBreaker == [state |-> "closed", failure_count |-> 0,
               last_failure_time |-> NoTime]

\* faulty variant of _should_attempt_reset: the comparison is reversed
ShouldAttemptResetReversed(b, t) ==
    IF b.last_failure_time = NoTime THEN TRUE
    ELSE (t - b.last_failure_time) <= RecoveryTimeout

\* MCPCircuitBreaker._should_attempt_reset
ShouldAttemptReset(b, t) ==
    IF b.last_failure_time = NoTime THEN TRUE
    ELSE (t - b.last_failure_time) >= RecoveryTimeout

\* faulty variant of _on_success: the counters are reset, the state is not
OnSuccessKeepsState(b) == [state |-> b.state, failure_count |-> 0,
                           last_failure_time |-> NoTime]

\* MCPCircuitBreaker._on_success
OnSuccess(b) == [state |-> "closed", failure_count |-> 0,
                 last_failure_time |-> NoTime]

\* faulty variant of _on_failure: ">" instead of ">=" on the threshold
OnFailureStrictThreshold(b, t) ==
    LET n == b.failure_count + 1
    IN [state |-> IF n > FailureThreshold THEN "open" ELSE b.state,
        failure_count |-> n,
        last_failure_time |-> t]

\* faulty variant of _on_failure: a recorded last_failure_time is kept
OnFailureKeepsTime(b, t) ==
    LET n == b.failure_count + 1
    IN [state |-> IF n >= FailureThreshold THEN "open" ELSE b.state,
        failure_count |-> n,
        last_failure_time |-> IF b.last_failure_time = NoTime THEN t
                              ELSE b.last_failure_time]

\* MCPCircuitBreaker._on_failure
OnFailure(b, t) ==
    LET n == b.failure_count + 1
    IN [state |-> IF n >= FailureThreshold THEN "open" ELSE b.state,
        failure_count |-> n,
        last_failure_time |-> t]

BreakerFresh ==
    /\ clock = 0
    /\ breaker = NewBreaker
    /\ cpc = [c \in Callers |-> "idle"]
    /\ cadm = [c \in Callers |-> "none"]
    /\ cres = [c \in Callers |-> "none"]
    /\ recorded = [c \in Callers |-> NoText]

\* time passes
ClockTick ==
    /\ clock + ClockStep <= MaxClock
    /\ clock' = clock + ClockStep
    /\ UNCHANGED <<breaker, cpc, cadm, cres, recorded>>
    /\ UNCHANGED <<qvars, evars, tvars, wvars>>

\* call: state is not open, the wrapped function is invoked
CallPass(c) ==
    /\ cpc[c] = "idle"
    /\ breaker.state # "open"
    /\ cpc' = [cpc EXCEPT ![c] = "in_call"]
    /\ cadm' = [cadm EXCEPT ![c] = breaker.state]
    /\ cres' = [cres EXCEPT ![c] = "pending"]
    /\ recorded' = [recorded EXCEPT ![c] = NoText]
    /\ UNCHANGED <<clock, breaker>>
    /\ UNCHANGED <<qvars, evars, tvars, wvars>>

\* call: state is open and _should_attempt_reset(): half-open, then the
\* wrapped function is invoked
CallTrial(c) ==
    /\ cpc[c] = "idle"
    /\ breaker.state = "open"
    /\ ShouldAttemptReset(breaker, clock)
    /\ breaker' = [breaker EXCEPT !.state = "half-open"]
    /\ cpc' = [cpc EXCEPT ![c] = "in_call"]
    /\ cadm' = [cadm EXCEPT ![c] = "trial"]
    /\ cres' = [cres EXCEPT ![c] = "pending"]
    /\ recorded' = [recorded EXCEPT ![c] = NoText]
    /\ UNCHANGED clock
    /\ UNCHANGED <<qvars, evars, tvars, wvars>>

\* call: state is open and not _should_attempt_reset():
\* raise MCPError("Circuit breaker is open - MCP server unavailable")
CallReject(c) ==
    /\ cpc[c] = "idle"
    /\ breaker.state = "open"
    /\ ~ShouldAttemptReset(breaker, clock)
    /\ cadm' = [cadm EXCEPT ![c] = "rejected"]
    /\ cres' = [cres EXCEPT ![c] = "unavailable"]
    /\ recorded' = [recorded EXCEPT ![c] = BreakerOpenText]
    /\ UNCHANGED <<clock, breaker, cpc>>
    /\ UNCHANGED <<qvars, evars, tvars, wvars>>

\* call: the wrapped function returned; _on_success(); return result
FuncReturns(c) ==
    /\ cpc[c] = "in_call"
    /\ breaker' = OnSuccess(breaker)
    /\ cpc' = [cpc EXCEPT ![c] = "idle"]
    /\ cres' = [cres EXCEPT ![c] = "ok"]
    /\ UNCHANGED <<clock, cadm, recorded>>
    /\ UNCHANGED <<qvars, evars, tvars, wvars>>

\* call: the wrapped function raised expected_exception (MCPError), which
\* call_tool raises after its last attempt; _on_failure(); raise.  The
\* caller, execute_step, records str(e).
FuncRaisesGuarded(c) ==
    /\ cpc[c] = "in_call"
    /\ breaker' = OnFailure(breaker, clock)
    /\ cpc' = [cpc EXCEPT ![c] = "idle"]
    /\ cres' = [cres EXCEPT ![c] = "mcp_error"]
    /\ \E attempts \in AttemptCounts, last \in LastErrorTexts :
          recorded' = [recorded EXCEPT ![c] = ExhaustedText(attempts, last)]
    /\ UNCHANGED <<clock, cadm>>
    /\ UNCHANGED <<qvars, evars, tvars, wvars>>

\* faulty variant of call: every exception is counted as a failure
FuncRaisesOtherCounted(c) ==
    /\ cpc[c] = "in_call"
    /\ breaker' = OnFailure(breaker, clock)
    /\ cpc' = [cpc EXCEPT ![c] = "idle"]
    /\ cres' = [cres EXCEPT ![c] = "other_error"]
    /\ UNCHANGED <<clock, cadm, recorded>>
    /\ UNCHANGED <<qvars, evars, tvars, wvars>>

\* call: the wrapped function raised an exception that is not an
\* expected_exception: it propagates, no handler of call runs
FuncRaisesOther(c) ==
    /\ cpc[c] = "in_call"
    /\ cpc' = [cpc EXCEPT ![c] = "idle"]
    /\ cres' = [cres EXCEPT ![c] = "other_error"]
    /\ UNCHANGED <<clock, breaker, cadm, recorded>>
    /\ UNCHANGED <<qvars, evars, tvars, wvars>>

BreakerNext ==
    \/ ClockTick
    \/ \E c \in Callers : CallPass(c)
    \/ \E c \in Callers : CallTrial(c)
    \/ \E c \in Callers : CallReject(c)
    \/ \E c \in Callers : FuncReturns(c)
    \/ \E c \in Callers : FuncRaisesGuarded(c)
    \/ \E c \in Callers : FuncRaisesOther(c)

-----------------------------------------------------------------------------
(* Execution engine, sequential mode.  The plan is the input of              *)
(* execute_sequential_plan: its length is fixed at the start and each step   *)
(* dict is drawn when the for loop reads it.                                 *)

MaxSteps == 2
MaxTools == 2

\* step["mcp_tools"] raises KeyError: the step dict has no such key
NoKey == -1

\* MCPClient._session is None
NoSession == 0

\* a step of plan.steps; step ids are the positions "step_1", "step_2", ...;
\* mcp_tools is the number of tool calls (their tool names are distinct within
\* a step, as in the mapping table), or NoKey
StepsOf(n) ==
    [required : BOOLEAN,
     depends_on : {{}} \cup {{j} : j \in 1..n},
     mcp_tools : {NoKey} \cup (0..MaxTools)]

\* the step dicts that can stand at position i of a plan of n steps
StepsAt(i, n) == {st \in StepsOf(n) : i \notin st.depends_on}

\* no entry for the step id in the results map
NoResult ==
    [present |-> FALSE, success |-> FALSE, error |-> "", keys |-> {},
     data |-> <<>>, tool_results |-> 0, successful_tools |-> 0]

\* {"success": False, "error": "Dependencies not met", "data": None}
DepFailure ==
    [present |-> TRUE, success |-> FALSE, error |-> "Dependencies not met",
     keys |-> {"success", "error", "data"},
     data |-> <<>>, tool_results |-> 0, successful_tools |-> 0]

\* {"success": False, "error": str(e), "data": None}
RaisedResult ==
    [present |-> TRUE, success |-> FALSE, error |-> "exception",
     keys |-> {"success", "error", "data"},
     data |-> <<>>, tool_results |-> 0, successful_tools |-> 0]

\* successful_tools = [r for r in step_results.values() if r["success"]]
SuccessfulTools(sr) == {k \in DOMAIN sr : sr[k].success}

\* step_success = len(successful_tools) > 0
StepSuccess(sr) == Cardinality(SuccessfulTools(sr)) > 0

\* execute_step's normal return value
StepResult(sr) ==
    [present |-> TRUE, success |-> StepSuccess(sr), error |-> "",
     keys |-> {"success", "data", "execution_time", "tool_results",
               "successful_tools"},
     data |-> sr, tool_results |-> Len(sr),
     successful_tools |-> Cardinality(SuccessfulTools(sr))]

\* execute_step's return value in its "except Exception" handler
StepException(sr) ==
    [present |-> TRUE, success |-> FALSE, error |-> "exception",
     keys |-> {"success", "error", "execution_time", "data"},
     data |-> sr, tool_results |-> 0, successful_tools |-> 0]

\* faulty variant of check_dependencies: the success flag of the dependency's
\* result is not read
CheckDependenciesPresentOnly(step, res) ==
    \A d \in step.depends_on :
        /\ d \in DOMAIN res
        /\ res[d].present

\* check_dependencies
CheckDependencies(step, res) ==
    \A d \in step.depends_on :
        /\ d \in DOMAIN res
        /\ res[d].present
        /\ res[d].success

\* faulty variant of the stop test: the required flag is read inverted
StopsPlanOptionalOnly(step, result) == ~step.required /\ ~result.success

\* the three "if required step failed, stop execution" tests
StopsPlan(step, result) == step.required /\ ~result.success

\* MCPClient._create_session: a new ClientSession unless one is open
CreateSession(s, n) == IF s = NoSession THEN n + 1 ELSE s

\* MCPClient._close_session, run by __aexit__ when execute_step leaves
\* "async with mcp_client"
CloseSession(s) == NoSession

EngineIdle ==
    /\ nsteps = 0
    /\ plan = <<>>
    /\ results = <<>>
    /\ epc = "done"
    /\ si = 1
    /\ ti = 1
    /\ step_results = <<>>
    /\ session = NoSession
    /\ nSessions = 0
    /\ invoked = {}
    /\ ptask = <<>>

EngineStart ==
    /\ nsteps \in 1..MaxSteps
    /\ plan = <<>>
    /\ results = [i \in 1..nsteps |-> NoResult]
    /\ epc = "check"
    /\ si = 1
    /\ ti = 1
    /\ step_results = <<>>
    /\ session = NoSession
    /\ nSessions = 0
    /\ invoked = {}
    /\ ptask = <<>>

\* results[step_id] = result, then break, or the next iteration of the loop
Record(step, result) ==
    /\ results' = [results EXCEPT ![si] = result]
    /\ IF StopsPlan(step, result) \/ si = nsteps
       THEN /\ epc' = "done"
            /\ si' = si
       ELSE /\ epc' = "check"
            /\ si' = si + 1
    /\ ti' = 1
    /\ step_results' = <<>>

\* execute_sequential_plan: the loop reads the next step and
\* check_dependencies fails
DepsNotMet(step) ==
    /\ epc = "check"
    /\ plan' = Append(plan, step)
    /\ ~CheckDependencies(step, results)
    /\ Record(step, DepFailure)
    /\ UNCHANGED <<nsteps, session, nSessions, invoked, ptask>>
    /\ UNCHANGED <<qvars, bvars, tvars, wvars>>

\* execute_sequential_plan: the loop reads the next step, its dependencies
\* are met and execute_step raises (KeyError on the step dict)
StepRaises(step) ==
    /\ epc = "check"
    /\ plan' = Append(plan, step)
    /\ CheckDependencies(step, results)
    /\ step.mcp_tools = NoKey
    /\ Record(step, RaisedResult)
    /\ UNCHANGED <<nsteps, session, nSessions, invoked, ptask>>
    /\ UNCHANGED <<qvars, bvars, tvars, wvars>>

\* execute_sequential_plan: the loop reads the next step, its dependencies
\* are met; execute_step enters "async with mcp_client" (__aenter__)
EnterStep(step) ==
    /\ epc = "check"
    /\ plan' = Append(plan, step)
    /\ CheckDependencies(step, results)
    /\ step.mcp_tools # NoKey
    /\ session' = CreateSession(session, nSessions)
    /\ nSessions' = IF session = NoSession THEN nSessions + 1 ELSE nSessions
    /\ epc' = "tool"
    /\ ti' = 1
    /\ step_results' = <<>>
    /\ UNCHANGED <<nsteps, results, si, invoked, ptask>>
    /\ UNCHANGED <<qvars, bvars, tvars, wvars>>

\* execute_step: circuit_breaker.call(mcp_client.call_tool, ...) returns
ToolSucceeds ==
    /\ epc = "tool"
    /\ ti <= plan[si].mcp_tools
    /\ session' = CreateSession(session, nSessions)
    /\ nSessions' = IF session = NoSession THEN nSessions + 1 ELSE nSessions
    /\ invoked' = invoked \cup {<<si, ti>>}
    /\ step_results' = Append(step_results, [success |-> TRUE, error |-> ""])
    /\ ti' = ti + 1
    /\ UNCHANGED <<nsteps, plan, results, epc, si, ptask>>
    /\ UNCHANGED <<qvars, bvars, tvars, wvars>>

\* execute_step: the tool call raises MCPError (retries exhausted, or the
\* breaker is open)
ToolFails ==
    /\ epc = "tool"
    /\ ti <= plan[si].mcp_tools
    /\ session' = CreateSession(session, nSessions)
    /\ nSessions' = IF session = NoSession THEN nSessions + 1 ELSE nSessions
    /\ invoked' = invoked \cup {<<si, ti>>}
    /\ step_results' = Append(step_results,
                              [success |-> FALSE, error |-> "MCPError"])
    /\ ti' = ti + 1
    /\ UNCHANGED <<nsteps, plan, results, epc, si, ptask>>
    /\ UNCHANGED <<qvars, bvars, tvars, wvars>>

\* execute_step: the tool call raises an exception that is not an MCPError;
\* __aexit__ closes the session and "except Exception" returns the failure
ToolRaises ==
    /\ epc = "tool"
    /\ ti <= plan[si].mcp_tools
    /\ invoked' = invoked \cup {<<si, ti>>}
    /\ session' = CloseSession(CreateSession(session, nSessions))
    /\ nSessions' = IF session = NoSession THEN nSessions + 1 ELSE nSessions
    /\ Record(plan[si], StepException(step_results))
    /\ UNCHANGED <<nsteps, plan, ptask>>
    /\ UNCHANGED <<qvars, bvars, tvars, wvars>>

\* execute_step: all tool calls done; __aexit__ closes the session and the
\* step result is returned
ExitStep ==
    /\ epc = "tool"
    /\ ti > plan[si].mcp_tools
    /\ session' = CloseSession(session)
    /\ Record(plan[si], StepResult(step_results))
    /\ UNCHANGED <<nsteps, plan, nSessions, invoked, ptask>>
    /\ UNCHANGED <<qvars, bvars, tvars, wvars>>

EngineNext ==
    \/ \E step \in StepsAt(si, nsteps) : DepsNotMet(step)
    \/ \E step \in StepsAt(si, nsteps) : StepRaises(step)
    \/ \E step \in StepsAt(si, nsteps) : EnterStep(step)
    \/ ToolSucceeds
    \/ ToolFails
    \/ ToolRaises
    \/ ExitStep

\* number of steps of the plans built as a dependency chain
ChainSteps == 3

\* create_execution_plan, sequential mode: the step dicts that can stand at
\* position i of a plan of n steps, "depends_on": [f"step_{i}"] if i > 0
ChainStepsAt(i, n) ==
    {st \in StepsOf(n) : st.depends_on = IF i = 1 THEN {} ELSE {i - 1}}

\* execute_sequential_plan is handed a plan built as a dependency chain
ChainStart ==
    /\ nsteps \in 1..ChainSteps
    /\ plan = <<>>
    /\ results = [i \in 1..nsteps |-> NoResult]
    /\ epc = "check"
    /\ si = 1
    /\ ti = 1
    /\ step_results = <<>>
    /\ session = NoSession
    /\ nSessions = 0
    /\ invoked = {}
    /\ ptask = <<>>

\* the sequential engine on the steps of a chain
ChainNext ==
    \/ \E step \in ChainStepsAt(si, nsteps) : DepsNotMet(step)
    \/ \E step \in ChainStepsAt(si, nsteps) : StepRaises(step)
    \/ \E step \in ChainStepsAt(si, nsteps) : EnterStep(step)
    \/ ToolSucceeds
    \/ ToolFails
    \/ ToolRaises
    \/ ExitStep

-----------------------------------------------------------------------------
(* Execution engine, parallel mode.  execute_parallel_plan creates one       *)
(* asyncio task per step and gathers them; the tasks interleave at their     *)
(* awaits and share the one MCPClient and its session.                       *)

\* a step of a parallel plan: the planner sets no dependency in parallel mode
ParallelSteps == {st \in StepsOf(0) : st.depends_on = {}}

\* asyncio.create_task(execute_step(step)): the task has not run yet
CreatedTask ==
    [pc |-> "created", ti |-> 1, sr |-> <<>>, left |-> 0, exc |-> FALSE,
     out |-> NoResult]

\* execute_step's "except Exception" return value when the exception is the
\* AttributeError of self._session.post on a session that is None
SessionLost(sr) == [StepException(sr) EXCEPT !.error = "no session"]

\* gather(..., return_exceptions=True), then the loop over zip(tasks, results)
Gathered(t) == IF t.exc THEN RaisedResult ELSE t.out

ParallelStart ==
    /\ nsteps \in 1..MaxSteps
    /\ plan \in [1..nsteps -> ParallelSteps]
    /\ results = [i \in 1..nsteps |-> NoResult]
    /\ epc = "gather"
    /\ si = 1
    /\ ti = 1
    /\ step_results = <<>>
    /\ session = NoSession
    /\ nSessions = 0
    /\ invoked = {}
    /\ ptask = [i \in 1..nsteps |-> CreatedTask]

\* the task of step i runs execute_step, which raises before its try block
\* (KeyError on the step dict): the exception is the task's result
TaskRaises(i) ==
    /\ epc = "gather"
    /\ ptask[i].pc = "created"
    /\ plan[i].mcp_tools = NoKey
    /\ ptask' = [ptask EXCEPT ![i].pc = "done", ![i].exc = TRUE]
    /\ UNCHANGED <<nsteps, plan, results, epc, si, ti, step_results, session,
                   nSessions, invoked>>
    /\ UNCHANGED <<qvars, bvars, tvars, wvars>>

\* the task of step i enters "async with mcp_client" (__aenter__)
TaskEnters(i) ==
    /\ epc = "gather"
    /\ ptask[i].pc = "created"
    /\ plan[i].mcp_tools # NoKey
    /\ session' = CreateSession(session, nSessions)
    /\ nSessions' = IF session = NoSession THEN nSessions + 1 ELSE nSessions
    /\ ptask' = [ptask EXCEPT ![i].pc = "tool"]
    /\ UNCHANGED <<nsteps, plan, results, epc, si, ti, step_results, invoked>>
    /\ UNCHANGED <<qvars, bvars, tvars, wvars>>

\* circuit_breaker.call(mcp_client.call_tool, ..., retry_count=r): call_tool
\* runs _create_session and posts the first request
TaskInvokes(i, r) ==
    /\ epc = "gather"
    /\ ptask[i].pc = "tool"
    /\ ptask[i].ti <= plan[i].mcp_tools
    /\ session' = CreateSession(session, nSessions)
    /\ nSessions' = IF session = NoSession THEN nSessions + 1 ELSE nSessions
    /\ invoked' = invoked \cup {<<i, ptask[i].ti>>}
    /\ ptask' = [ptask EXCEPT ![i].pc = "request", ![i].left = r]
    /\ UNCHANGED <<nsteps, plan, results, epc, si, ti, step_results>>
    /\ UNCHANGED <<qvars, bvars, tvars, wvars>>

\* the request in flight succeeds: call_tool returns, the tool result is stored
TaskRequestReturns(i) ==
    /\ epc = "gather"
    /\ ptask[i].pc = "request"
    /\ ptask' = [ptask EXCEPT
                    ![i].pc = "tool",
                    ![i].ti = @ + 1,
                    ![i].sr = Append(@, [success |-> TRUE, error |-> ""])]
    /\ UNCHANGED <<nsteps, plan, results, epc, si, ti, step_results, session,
                   nSessions, invoked>>
    /\ UNCHANGED <<qvars, bvars, tvars, wvars>>

\* the request in flight fails with an exception call_tool catches: sleep
\* before the next attempt, or, on the last attempt, MCPError, which
\* execute_step stores as the tool's failure
TaskRequestFails(i) ==
    /\ epc = "gather"
    /\ ptask[i].pc = "request"
    /\ ptask' = IF ptask[i].left > 0
                THEN [ptask EXCEPT ![i].pc = "sleep"]
                ELSE [ptask EXCEPT
                        ![i].pc = "tool",
                        ![i].ti = @ + 1,
                        ![i].sr = Append(@, [success |-> FALSE,
                                             error |-> "MCPError"])]
    /\ UNCHANGED <<nsteps, plan, results, epc, si, ti, step_results, session,
                   nSessions, invoked>>
    /\ UNCHANGED <<qvars, bvars, tvars, wvars>>

\* the request in flight ends in an exception that is not an MCPError and that
\* call_tool does not catch: __aexit__ closes the session and execute_step's
\* "except Exception" returns the failure
TaskRequestRaises(i) ==
    /\ epc = "gather"
    /\ ptask[i].pc = "request"
    /\ session' = CloseSession(session)
    /\ ptask' = [ptask EXCEPT ![i].pc = "done",
                              ![i].out = StepException(ptask[i].sr)]
    /\ UNCHANGED <<nsteps, plan, results, epc, si, ti, step_results, nSessions,
                   invoked>>
    /\ UNCHANGED <<qvars, bvars, tvars, wvars>>

\* asyncio.sleep(delay) is over and self._session is still there: next attempt
TaskWakes(i) ==
    /\ epc = "gather"
    /\ ptask[i].pc = "sleep"
    /\ session # NoSession
    /\ ptask' = [ptask EXCEPT ![i].pc = "request", ![i].left = @ - 1]
    /\ UNCHANGED <<nsteps, plan, results, epc, si, ti, step_results, session,
                   nSessions, invoked>>
    /\ UNCHANGED <<qvars, bvars, tvars, wvars>>

\* asyncio.sleep(delay) is over and self._session is None (another task has
\* left "async with mcp_client"): self._session.post raises AttributeError,
\* which neither call_tool nor "except MCPError" catches
TaskWakesNoSession(i) ==
    /\ epc = "gather"
    /\ ptask[i].pc = "sleep"
    /\ session = NoSession
    /\ session' = CloseSession(session)
    /\ ptask' = [ptask EXCEPT ![i].pc = "done",
                              ![i].out = SessionLost(ptask[i].sr)]
    /\ UNCHANGED <<nsteps, plan, results, epc, si, ti, step_results, nSessions,
                   invoked>>
    /\ UNCHANGED <<qvars, bvars, tvars, wvars>>

\* all tool calls of step i are done: __aexit__ closes the session and the
\* step result is the task's result
TaskExits(i) ==
    /\ epc = "gather"
    /\ ptask[i].pc = "tool"
    /\ ptask[i].ti > plan[i].mcp_tools
    /\ session' = CloseSession(session)
    /\ ptask' = [ptask EXCEPT ![i].pc = "done",
                              ![i].out = StepResult(ptask[i].sr)]
    /\ UNCHANGED <<nsteps, plan, results, epc, si, ti, step_results, nSessions,
                   invoked>>
    /\ UNCHANGED <<qvars, bvars, tvars, wvars>>

\* every task is done: gather returns and the results map is filled
Gather ==
    /\ epc = "gather"
    /\ \A i \in 1..nsteps : ptask[i].pc = "done"
    /\ results' = [i \in 1..nsteps |-> Gathered(ptask[i])]
    /\ epc' = "done"
    /\ UNCHANGED <<nsteps, plan, si, ti, step_results, session, nSessions,
                   invoked, ptask>>
    /\ UNCHANGED <<qvars, bvars, tvars, wvars>>

ParallelNext ==
    \/ \E i \in 1..nsteps : TaskRaises(i)
    \/ \E i \in 1..nsteps : TaskEnters(i)
    \/ \E i \in 1..nsteps : \E r \in 0..MaxRetryCount : TaskInvokes(i, r)
    \/ \E i \in 1..nsteps : TaskRequestReturns(i)
    \/ \E i \in 1..nsteps : TaskRequestFails(i)
    \/ \E i \in 1..nsteps : TaskRequestRaises(i)
    \/ \E i \in 1..nsteps : TaskWakes(i)
    \/ \E i \in 1..nsteps : TaskWakesNoSession(i)
    \/ \E i \in 1..nsteps : TaskExits(i)
    \/ Gather

-----------------------------------------------------------------------------
(* MCP client: one call of call_tool.  Each request posted to the server     *)
(* ends in one of the outcomes below, chosen by the network and the server.  *)

\* what can come of one "async with self._session.post(...)" block
Outcomes ==
    {"ok",                \* 200, a JSON object with a non-null result
     "client_error",      \* aiohttp.ClientError from post() or text()
     "timeout",           \* asyncio.TimeoutError
     "bad_json",          \* 200, body is not JSON: json.loads raises
     "status",            \* status other than 200
     "rpc_error",         \* 200, "error" member that is an object
     "no_result",         \* 200, no "error" member, result missing or null
     "error_not_object",  \* 200, "error" member that is null or a string
     "body_not_object"}   \* 200, body is JSON but not an object

\* the exception a request with this outcome raises inside the try block
ExceptionOf(o) ==
    CASE o = "ok" -> "none"
      [] o = "client_error" -> "ClientError"
      [] o = "timeout" -> "TimeoutError"
      [] o = "bad_json" -> "JSONDecodeError"
      [] o \in {"status", "rpc_error", "no_result"} -> "MCPError"
      [] o = "error_not_object" -> "AttributeError"
      [] o = "body_not_object" -> "AttributeError"

\* except (ClientError, asyncio.TimeoutError, json.JSONDecodeError, MCPError)
Caught(exc) ==
    exc \in {"ClientError", "TimeoutError", "JSONDecodeError", "MCPError"}

ToolIdle ==
    /\ retries = 0
    /\ attempt = 0
    /\ requests = <<>>
    /\ last_error = "none"
    /\ tpc = "idle"
    /\ raised = "none"
    /\ message = "none"

\* call_tool is entered with retry_count r; the loop starts at attempt 0
ToolStart ==
    /\ retries \in 0..MaxRetryCount
    /\ attempt = 0
    /\ requests = <<>>
    /\ last_error = "none"
    /\ tpc = "request"
    /\ raised = "none"
    /\ message = "none"

\* the request succeeds: return result
RequestReturns ==
    /\ tpc = "request"
    /\ requests' = Append(requests, "ok")
    /\ tpc' = "returned"
    /\ UNCHANGED <<retries, attempt, last_error, raised, message>>
    /\ UNCHANGED <<qvars, bvars, evars, wvars>>

\* the request raises an exception the except clause catches: sleep and
\* retry, or, on the last attempt, leave the loop and
\* raise MCPError(f"... after {actual_retries + 1} attempts: {last_error}")
RequestFails(o) ==
    /\ tpc = "request"
    /\ o # "ok"
    /\ Caught(ExceptionOf(o))
    /\ requests' = Append(requests, o)
    /\ last_error' = o
    /\ IF attempt < retries
       THEN /\ tpc' = "sleep"
            /\ UNCHANGED <<raised, message>>
       ELSE /\ tpc' = "raised"
            /\ raised' = "MCPError"
            /\ message' = o
    /\ UNCHANGED <<retries, attempt>>
    /\ UNCHANGED <<qvars, bvars, evars, wvars>>

\* the request raises an exception the except clause does not catch: it
\* leaves call_tool as it is
RequestCrashes(o) ==
    /\ tpc = "request"
    /\ o # "ok"
    /\ ~Caught(ExceptionOf(o))
    /\ requests' = Append(requests, o)
    /\ tpc' = "raised"
    /\ raised' = ExceptionOf(o)
    /\ UNCHANGED <<retries, attempt, last_error, message>>
    /\ UNCHANGED <<qvars, bvars, evars, wvars>>

\* asyncio.sleep(retry_delay * 2 ** attempt) is over: next iteration
Wake ==
    /\ tpc = "sleep"
    /\ attempt' = attempt + 1
    /\ tpc' = "request"
    /\ UNCHANGED <<retries, requests, last_error, raised, message>>
    /\ UNCHANGED <<qvars, bvars, evars, wvars>>

ToolNext ==
    \/ RequestReturns
    \/ \E o \in Outcomes : RequestFails(o)
    \/ \E o \in Outcomes : RequestCrashes(o)
    \/ Wake

-----------------------------------------------------------------------------
(* Query planner: plan_execution_node and the functions it calls.  Times are *)
(* in hours; step ids are the positions 1, 2, ... ("step_1", "step_2", ...). *)

\* get_mcp_mapping: the static mapping table (per tool template: the intent
\* types it applies to, its timeout and its retry count)
McpMapping ==
    [performance_metrics |->
        [type |-> "analytics", priority |-> 5, required |-> TRUE,
         tools |-> <<[name |-> "search_performance_data",
                      intent_types |-> {"metrics", "trends", "summary"},
                      timeout |-> 30, retry_count |-> 3],
                     [name |-> "get_metric_definitions",
                      intent_types |-> {"summary", "detailed"},
                      timeout |-> 10, retry_count |-> 2]>>],
     campaign_data |->
        [type |-> "marketing", priority |-> 4, required |-> TRUE,
         tools |-> <<[name |-> "search_campaign_performance",
                      intent_types |-> {"metrics", "trends", "comparison"},
                      timeout |-> 45, retry_count |-> 3],
                     [name |-> "get_campaign_hierarchy",
                      intent_types |-> {"summary", "detailed"},
                      timeout |-> 15, retry_count |-> 2]>>],
     user_analytics |->
        [type |-> "user_behavior", priority |-> 3, required |-> FALSE,
         tools |-> <<[name |-> "search_user_behavior",
                      intent_types |-> {"metrics", "trends", "detailed"},
                      timeout |-> 60, retry_count |-> 3],
                     [name |-> "get_retention_metrics",
                      intent_types |-> {"trends", "metrics"},
                      timeout |-> 30, retry_count |-> 2]>>],
     financial_data |->
        [type |-> "finance", priority |-> 4, required |-> TRUE,
         tools |-> <<[name |-> "search_financial_metrics",
                      intent_types |-> {"metrics", "trends", "summary"},
                      timeout |-> 30, retry_count |-> 3],
                     [name |-> "get_revenue_breakdown",
                      intent_types |-> {"detailed", "comparison"},
                      timeout |-> 45, retry_count |-> 2]>>],
     operational_data |->
        [type |-> "operations", priority |-> 2, required |-> FALSE,
         tools |-> <<[name |-> "search_system_metrics",
                      intent_types |-> {"metrics", "trends"},
                      timeout |-> 20, retry_count |-> 2],
                     [name |-> "get_uptime_reports",
                      intent_types |-> {"summary", "detailed"},
                      timeout |-> 15, retry_count |-> 1]>>]]

\* the ceiling of validate_execution_plan on a plan's estimated time
MaxEstimatedTime == 300

\* longest list of data-source names in an intent, and the longest list that
\* names one data source several times
MaxSources == 2
MaxRepeat == 8

\* the intent types of the table's templates, and one that no template has
IntentTypes ==
    {"metrics", "trends", "summary", "detailed", "comparison", "forecast"}

\* the names of the table, and one that is not in it
SourceNames == (DOMAIN McpMapping) \cup {"unknown_source"}

\* intent["time_range"]: absent, relative ("today"), absolute, or a duration
NoDate == -1

TimeRanges ==
    {[type |-> "none", pattern |-> "", start_date |-> NoDate,
      end_date |-> NoDate, value |-> 0],
     [type |-> "relative", pattern |-> "today", start_date |-> NoDate,
      end_date |-> NoDate, value |-> 0],
     [type |-> "absolute", pattern |-> "", start_date |-> 0,
      end_date |-> 24, value |-> 0],
     [type |-> "duration", pattern |-> "", start_date |-> NoDate,
      end_date |-> NoDate, value |-> 7]}

\* intent["data_sources"]: every list of up to MaxSources names, and the lists
\* that name one data source up to MaxRepeat times
SourceLists ==
    UNION {[1..n -> SourceNames] : n \in 0..MaxSources}
    \cup {[k \in 1..n |-> s] : s \in SourceNames, n \in 1..MaxRepeat}

\* the intents handed to the planner (entities and filters by their number)
Intents ==
    [intent_type : IntentTypes,
     data_sources : SourceLists,
     time_range : TimeRanges,
     entities : 0..1,
     filters : {0}]

\* datetime.utcnow() at the planner's runs
PlanTimes == {100, 101}

\* format_time_range_for_tool, with utcnow() = t
FormatTimeRangeForTool(time_range, t) ==
    IF time_range.type = "relative"
    THEN IF time_range.pattern = "today"
         THEN [start_date |-> t - (t % 24), end_date |-> t]
         ELSE [start_date |-> t - 7 * 24, end_date |-> t]
    ELSE IF time_range.type = "absolute"
    THEN [start_date |-> time_range.start_date,
          end_date |-> time_range.end_date]
    ELSE IF time_range.type = "duration"
    THEN [start_date |-> t - time_range.value * 24, end_date |-> t]
    ELSE [start_date |-> NoDate, end_date |-> NoDate]

\* build_tool_arguments: the part of the arguments that is not copied from the
\* template and the intent, that is the time range
BuildToolArguments(tool_config, intent, t) ==
    IF intent.time_range.type # "none"
    THEN FormatTimeRangeForTool(intent.time_range, t)
    ELSE [start_date |-> NoDate, end_date |-> NoDate]

\* the MCPToolCall list of one data source: one call per template whose
\* intent_types hold the intent's type, in the table's order
ToolCalls(source_config, intent, t) ==
    LET Relevant(tool_config) == intent.intent_type \in tool_config.intent_types
        kept == SelectSeq(source_config.tools, Relevant)
    IN [k \in 1..Len(kept) |->
          [tool_name |-> kept[k].name,
           arguments |-> BuildToolArguments(kept[k], intent, t),
           timeout |-> kept[k].timeout,
           retry_count |-> kept[k].retry_count]]

\* DataSource(name=..., mcp_tools=..., priority=..., required=...)
DataSourceOf(source_name, intent, t) ==
    [name |-> source_name,
     type |-> McpMapping[source_name].type,
     mcp_tools |-> ToolCalls(McpMapping[source_name], intent, t),
     priority |-> McpMapping[source_name].priority,
     required |-> McpMapping[source_name].required]

\* position of element k after a stable sort by ascending priority
RankAscending(seq, k) ==
    1 + Cardinality({j \in DOMAIN seq :
                       \/ seq[j].priority < seq[k].priority
                       \/ seq[j].priority = seq[k].priority /\ j < k})

\* position of element k after data_sources.sort(key=priority, reverse=True):
\* the sort is stable, equal priorities keep their order
Rank(seq, k) ==
    1 + Cardinality({j \in DOMAIN seq :
                       \/ seq[j].priority > seq[k].priority
                       \/ seq[j].priority = seq[k].priority /\ j < k})

\* faulty variant of the sort: ascending priority
SortByPriorityAscending(seq) ==
    [r \in DOMAIN seq |-> seq[CHOOSE k \in DOMAIN seq : RankAscending(seq, k) = r]]

SortByPriority(seq) ==
    [r \in DOMAIN seq |-> seq[CHOOSE k \in DOMAIN seq : Rank(seq, k) = r]]

\* the requested names that yield a data source: in the table, with at least
\* one applicable template
Resolves(source_name, intent) ==
    /\ source_name \in DOMAIN McpMapping
    /\ \E k \in DOMAIN McpMapping[source_name].tools :
          intent.intent_type \in McpMapping[source_name].tools[k].intent_types

\* faulty variant of map_intent_to_data_sources: an unknown name ends the loop
MapIntentStopsAtUnknown(intent, t) ==
    LET names == intent.data_sources
        known(k) == names[k] \in DOMAIN McpMapping
        upto == IF \A k \in DOMAIN names : known(k) THEN Len(names)
                ELSE (CHOOSE k \in DOMAIN names :
                         ~known(k) /\ \A j \in 1..(k - 1) : known(j)) - 1
        Keeps(source_name) == Resolves(source_name, intent)
        kept == SelectSeq(SubSeq(names, 1, upto), Keeps)
    IN SortByPriority([k \in 1..Len(kept) |-> DataSourceOf(kept[k], intent, t)])

\* map_intent_to_data_sources
MapIntentToDataSources(intent, t) ==
    LET Keeps(source_name) == Resolves(source_name, intent)
        kept == SelectSeq(intent.data_sources, Keeps)
    IN SortByPriority([k \in 1..Len(kept) |-> DataSourceOf(kept[k], intent, t)])

\* sum of a sequence of numbers
RECURSIVE SumSeq(_)
SumSeq(seq) == IF seq = <<>> THEN 0 ELSE Head(seq) + SumSeq(Tail(seq))

\* the larger of two numbers
Max2(a, b) == IF a >= b THEN a ELSE b

\* the largest number of a sequence, 0 if it is empty
RECURSIVE MaxSeq(_)
MaxSeq(seq) == IF seq = <<>> THEN 0 ELSE Max2(Head(seq), MaxSeq(Tail(seq)))

\* determine_complexity
DetermineComplexity(data_sources, intent) ==
    LET total_tools ==
            SumSeq([k \in DOMAIN data_sources |-> Len(data_sources[k].mcp_tools)])
        source_count == Len(data_sources)
        complexity_score ==
            total_tools * 2 + source_count * 3 + intent.entities + intent.filters
    IN IF complexity_score <= 5 THEN "simple"
       ELSE IF complexity_score <= 15 THEN "medium"
       ELSE "complex"

\* faulty variant of the parallel test: a required data source never bars
\* the parallel mode
ParallelExecutionAnyTools(data_sources) == Len(data_sources) > 1

\* create_execution_plan: parallel_execution
ParallelExecution(data_sources) ==
    /\ Len(data_sources) > 1
    /\ \A k \in DOMAIN data_sources :
          ~data_sources[k].required \/ Len(data_sources[k].mcp_tools) = 1

\* faulty variant of the dependency list: every later step depends on the
\* first step
DependsOnFirst(i, parallel_execution) ==
    IF parallel_execution THEN {} ELSE IF i > 1 THEN {1} ELSE {}

\* create_execution_plan: depends_on of the step at position i
DependsOn(i, parallel_execution) ==
    IF parallel_execution THEN {} ELSE IF i > 1 THEN {i - 1} ELSE {}

\* create_execution_plan, with str(uuid.uuid4()) = plan_id
CreateExecutionPlan(data_sources, intent, plan_id) ==
    LET parallel_execution == ParallelExecution(data_sources)
        StepTime(k) ==
            SumSeq([j \in DOMAIN data_sources[k].mcp_tools |->
                       data_sources[k].mcp_tools[j].timeout])
        steps ==
            [i \in DOMAIN data_sources |->
                [step_id |-> i,
                 data_source |-> data_sources[i].name,
                 mcp_tools |-> data_sources[i].mcp_tools,
                 required |-> data_sources[i].required,
                 estimated_time |-> StepTime(i),
                 depends_on |-> DependsOn(i, parallel_execution)]]
        times == [i \in DOMAIN steps |-> steps[i].estimated_time]
    IN [plan_id |-> plan_id,
        steps |-> steps,
        estimated_time |-> IF parallel_execution THEN MaxSeq(times)
                           ELSE SumSeq(times),
        complexity |-> DetermineComplexity(data_sources, intent),
        parallel_execution |-> parallel_execution]

\* faulty variant of validate_execution_plan: the ceiling is not enforced
ValidateExecutionPlanNoCeiling(p) ==
    LET step_ids == {p.steps[i].step_id : i \in DOMAIN p.steps}
    IN IF p.steps = <<>>
       THEN [valid |-> FALSE, reason |-> "No execution steps defined"]
       ELSE IF \E i \in DOMAIN p.steps :
                  \E dep \in p.steps[i].depends_on : dep \notin step_ids
       THEN [valid |-> FALSE, reason |-> "Invalid dependency"]
       ELSE IF ~\E i \in DOMAIN p.steps : p.steps[i].required
       THEN [valid |-> FALSE, reason |-> "No required execution steps"]
       ELSE [valid |-> TRUE, reason |-> "Plan is valid"]

\* validate_execution_plan
ValidateExecutionPlan(p) ==
    LET step_ids == {p.steps[i].step_id : i \in DOMAIN p.steps}
    IN IF p.steps = <<>>
       THEN [valid |-> FALSE, reason |-> "No execution steps defined"]
       ELSE IF p.estimated_time > MaxEstimatedTime
       THEN [valid |-> FALSE, reason |-> "Query estimated to take too long"]
       ELSE IF \E i \in DOMAIN p.steps :
                  \E dep \in p.steps[i].depends_on : dep \notin step_ids
       THEN [valid |-> FALSE, reason |-> "Invalid dependency"]
       ELSE IF ~\E i \in DOMAIN p.steps : p.steps[i].required
       THEN [valid |-> FALSE, reason |-> "No required execution steps"]
       ELSE [valid |-> TRUE, reason |-> "Plan is valid"]

-----------------------------------------------------------------------------
(* Agent workflow: the data retrieval node after the plan has been executed  *)

\* state["error"] is None
NoError == <<>>

\* state["mcp_results"] is None
NoResults == <<>>

\* step_results[tool_name] as validate_retrieval_results reads it: success, and
\* the truthiness of "data" (an empty dict or list is falsy; a failed tool
\* call has no "data" key)
ToolResults ==
    {[success |-> TRUE, error |-> "", data |-> TRUE],
     [success |-> TRUE, error |-> "", data |-> FALSE],
     [success |-> FALSE, error |-> "MCPError", data |-> FALSE]}

\* step_results of a step: one entry per tool call made
StepResultsUpTo(n) == UNION {[1..k -> ToolResults] : k \in 0..n}

\* the values execute_sequential_plan and execute_parallel_plan put in the
\* results map
ProducedResults ==
    {DepFailure, RaisedResult}
    \cup {StepResult(sr) : sr \in StepResultsUpTo(MaxTools)}
    \cup {StepException(sr) : sr \in StepResultsUpTo(MaxTools)}

\* the entries of the results map (a sequential plan that stopped early has
\* none for the steps it did not reach)
Entries(res) == {i \in DOMAIN res : res[i].present}

\* result.get("success", False) and result.get("data"), then the loop over
\* step_data.values()
HasData(res) ==
    \E i \in Entries(res) :
        /\ res[i].success
        /\ Len(res[i].data) > 0
        /\ \E k \in DOMAIN res[i].data :
              res[i].data[k].success /\ res[i].data[k].data

\* faulty variant of validate_retrieval_results: the data is not looked at
ValidateRetrievalResultsAnySuccess(res) ==
    IF Entries(res) = {}
    THEN [valid |-> FALSE, reason |-> "No results returned"]
    ELSE IF ~\E i \in Entries(res) : res[i].success
    THEN [valid |-> FALSE, reason |-> "No steps completed successfully"]
    ELSE [valid |-> TRUE, reason |-> "Results are valid"]

\* validate_retrieval_results
ValidateRetrievalResults(res) ==
    IF Entries(res) = {}
    THEN [valid |-> FALSE, reason |-> "No results returned"]
    ELSE IF ~\E i \in Entries(res) : res[i].success
    THEN [valid |-> FALSE, reason |-> "No steps completed successfully"]
    ELSE IF ~HasData(res)
    THEN [valid |-> FALSE, reason |-> "No data found in results"]
    ELSE [valid |-> TRUE, reason |-> "Results are valid"]

\* should_continue_to_formatting
ShouldContinueToFormatting(err, res) ==
    IF err # NoError THEN "handle_error"
    ELSE IF res = NoResults THEN "handle_error"
    ELSE "format_results"

\* state["execution_plan"] is None
NoPlan ==
    [plan_id |-> 0, steps |-> <<>>, estimated_time |-> 0, complexity |-> "",
     parallel_execution |-> FALSE]

\* state["intent"] is None
NoIntent ==
    [intent_type |-> "", data_sources |-> <<>>,
     time_range |-> [type |-> "none", pattern |-> "", start_date |-> NoDate,
                     end_date |-> NoDate, value |-> 0],
     entities |-> 0, filters |-> 0]

WorkflowIdle ==
    /\ node = "END"
    /\ s_intent = NoIntent
    /\ s_data_sources = <<>>
    /\ execution_plan = NoPlan
    /\ mcp_results = NoResults
    /\ error = NoError
    /\ new_plan = NoPlan
    /\ uuids = 0
    /\ calls = 0
    /\ runs = 0
    /\ first_plan = NoPlan

\* execute_data_retrieval_node has run the plan and holds its results
RetrievalStart ==
    /\ nsteps \in 1..MaxSteps
    /\ plan = <<>>
    /\ results \in [1..nsteps -> ProducedResults \cup {NoResult}]
    /\ epc = "done"
    /\ si = 1
    /\ ti = 1
    /\ step_results = <<>>
    /\ session = NoSession
    /\ nSessions = 0
    /\ invoked = {}
    /\ ptask = <<>>
    /\ node = "execute_data_retrieval"
    /\ s_intent = NoIntent
    /\ s_data_sources = <<>>
    /\ execution_plan = NoPlan
    /\ mcp_results = NoResults
    /\ error = NoError
    /\ new_plan = NoPlan
    /\ uuids = 0
    /\ calls = 0
    /\ runs = 1
    /\ first_plan = NoPlan

\* execute_data_retrieval_node: validate_retrieval_results, then the return
\* with "error" or with "mcp_results"; the conditional edge picks the next node
NodeValidates ==
    /\ node = "execute_data_retrieval"
    /\ epc = "done"
    /\ nsteps > 0
    /\ LET validation_result == ValidateRetrievalResults(results)
       IN /\ IF ~validation_result.valid
             THEN /\ error' = <<"Data retrieval validation failed: ",
                                validation_result.reason>>
                  /\ UNCHANGED mcp_results
             ELSE /\ mcp_results' = results
                  /\ UNCHANGED error
    /\ node' = ShouldContinueToFormatting(error', mcp_results')
    /\ UNCHANGED <<s_intent, s_data_sources, execution_plan, new_plan, uuids,
                   calls, runs, first_plan>>
    /\ UNCHANGED <<qvars, bvars, evars, tvars>>

RetrievalNext == NodeValidates

\* faulty variant of the "except Exception" return: the escaped exception is
\* reported in the words of a validation failure
ExecutionErrorAsValidation(text) ==
    <<"Data retrieval validation failed: ", text>>

\* f"Data retrieval failed: {str(e)}"
ExecutionError(text) == <<"Data retrieval failed: ", text>>

\* str(e) of an exception that escapes plan execution: the KeyError of a step
\* dict without "step_id", and an exception whose text is a validation reason
ExceptionTexts == {"'step_id'", "No data found in results"}

\* execute_data_retrieval_node: an exception escapes execute_sequential_plan
\* or execute_parallel_plan (the results so far are dropped); the
\* "except Exception" return with "error", then the conditional edge
NodeRaises(text) ==
    /\ node = "execute_data_retrieval"
    /\ epc = "done"
    /\ nsteps > 0
    /\ epc' = "raised"
    /\ error' = ExecutionError(text)
    /\ node' = ShouldContinueToFormatting(error', mcp_results)
    /\ UNCHANGED <<s_intent, s_data_sources, execution_plan, mcp_results,
                   new_plan, uuids, calls, runs, first_plan>>
    /\ UNCHANGED <<nsteps, plan, results, si, ti, step_results, session,
                   nSessions, invoked, ptask>>
    /\ UNCHANGED <<qvars, bvars, tvars>>

\* the two ways execute_data_retrieval_node ends once the plan is under way
OutcomeNext ==
    \/ NodeValidates
    \/ \E text \in ExceptionTexts : NodeRaises(text)

-----------------------------------------------------------------------------
(* Agent workflow from the planning node on: plan_execution, the conditional *)
(* edge to execute_data_retrieval, and the two final nodes.  The execution   *)
(* of the plan is summarised by the number of tool calls it issues and by     *)
(* the results map it ends with.                                             *)

\* faulty variant of the edge: the plan is executed whatever the planner said
ShouldContinueAlways(err, p) == "execute_data_retrieval"

\* should_continue_to_execution
ShouldContinueToExecution(err, p) ==
    IF err # NoError THEN "handle_error"
    ELSE IF p = NoPlan THEN "handle_error"
    ELSE "execute_data_retrieval"

\* the workflow reaches plan_execution with an intent
PlannerStart ==
    /\ node = "plan_execution"
    /\ s_intent \in Intents
    /\ s_data_sources = <<>>
    /\ execution_plan = NoPlan
    /\ mcp_results = NoResults
    /\ error = NoError
    /\ new_plan = NoPlan
    /\ uuids = 0
    /\ calls = 0
    /\ runs = 1
    /\ first_plan = NoPlan

\* plan_execution_node from validate_execution_plan on: the return with
\* "error", or with "data_sources" and "execution_plan"; then the edge
PlanReturns(sources, p) ==
    /\ LET validation_result == ValidateExecutionPlan(p)
       IN IF ~validation_result.valid
          THEN /\ error' = <<"Invalid execution plan: ",
                             validation_result.reason>>
               /\ UNCHANGED <<s_data_sources, execution_plan>>
          ELSE /\ s_data_sources' = sources
               /\ execution_plan' = p
               /\ UNCHANGED error
    /\ node' = ShouldContinueToExecution(error', execution_plan')

\* plan_execution_node, with utcnow() = t: map_intent_to_data_sources, then
\* the return for want of data sources, or create_execution_plan and
\* validate_execution_plan
PlanExecutionNode(t) ==
    /\ node = "plan_execution"
    /\ LET sources == MapIntentToDataSources(s_intent, t)
       IN IF sources = <<>>
          THEN /\ error' = <<"No suitable data sources found for this query">>
               /\ node' = ShouldContinueToExecution(error', execution_plan)
               /\ UNCHANGED <<s_data_sources, execution_plan, new_plan, uuids>>
          ELSE /\ new_plan' = CreateExecutionPlan(sources, s_intent, uuids + 1)
               /\ uuids' = uuids + 1
               /\ PlanReturns(sources, new_plan')
    /\ UNCHANGED <<s_intent, mcp_results, calls, runs, first_plan>>
    /\ UNCHANGED <<qvars, bvars, evars, tvars>>

\* number of tool calls of a plan
NumToolCalls(p) == SumSeq([i \in DOMAIN p.steps |-> Len(p.steps[i].mcp_tools)])

\* the results maps the summarised execution ends with: every step raised, or
\* every step succeeded with one tool call that returned data
SummaryResults(p) ==
    {[i \in DOMAIN p.steps |-> r] :
        r \in {RaisedResult,
                StepResult(<<[success |-> TRUE, error |-> "", data |-> TRUE]>>)}}

\* execute_data_retrieval_node in a run of the workflow: without a plan or
\* data sources the error return before anything is executed; otherwise the
\* plan is executed, issuing k tool calls and ending with the results map res,
\* which is validated
DataRetrievalNode(k, res) ==
    /\ node = "execute_data_retrieval"
    /\ s_intent # NoIntent
    /\ IF execution_plan = NoPlan \/ s_data_sources = <<>>
       THEN /\ error' = <<"No execution plan or data sources available">>
            /\ UNCHANGED <<mcp_results, calls>>
       ELSE /\ calls' = calls + k
            /\ LET validation_result == ValidateRetrievalResults(res)
               IN IF ~validation_result.valid
                  THEN /\ error' = <<"Data retrieval validation failed: ",
                                     validation_result.reason>>
                       /\ UNCHANGED mcp_results
                  ELSE /\ mcp_results' = res
                       /\ UNCHANGED error
    /\ node' = ShouldContinueToFormatting(error', mcp_results')
    /\ UNCHANGED <<s_intent, s_data_sources, execution_plan, new_plan, uuids,
                   runs, first_plan>>
    /\ UNCHANGED <<qvars, bvars, evars, tvars>>

\* format_results_node or handle_error_node, then END
FinalNode ==
    /\ node \in {"format_results", "handle_error"}
    /\ s_intent # NoIntent
    /\ node' = "END"
    /\ UNCHANGED <<s_intent, s_data_sources, execution_plan, mcp_results, error,
                   new_plan, uuids, calls, runs, first_plan>>
    /\ UNCHANGED <<qvars, bvars, evars, tvars>>

\* the workflow is run a second time on the same intent
PlanAgain ==
    /\ node = "END"
    /\ runs = 1
    /\ runs' = 2
    /\ first_plan' = new_plan
    /\ node' = "plan_execution"
    /\ s_data_sources' = <<>>
    /\ execution_plan' = NoPlan
    /\ mcp_results' = NoResults
    /\ error' = NoError
    /\ new_plan' = NoPlan
    /\ calls' = 0
    /\ UNCHANGED <<s_intent, uuids>>
    /\ UNCHANGED <<qvars, bvars, evars, tvars>>

PlannerNext ==
    \/ \E t \in PlanTimes : PlanExecutionNode(t)
    \/ \E k \in {1, NumToolCalls(execution_plan)} :
          \E res \in SummaryResults(execution_plan) : DataRetrievalNode(k, res)
    \/ FinalNode
    \/ PlanAgain

-----------------------------------------------------------------------------
(* validate_execution_plan on any ExecutionPlan, not only on those that       *)
(* create_execution_plan builds                                              *)

\* plan.steps: up to MaxSteps steps with the ids step_1, step_2, ..., each
\* required or not, each depending on any set of ids, among them one id that
\* no step has
StepLists ==
    UNION {[1..n -> [required : BOOLEAN,
                     depends_on : SUBSET (1..(MaxSteps + 1))]] :
             n \in 0..MaxSteps}

\* the ExecutionPlan objects handed to validate_execution_plan
AnyPlans ==
    {[plan_id |-> 1,
      steps |-> [i \in DOMAIN sl |->
                    [step_id |-> i,
                     data_source |-> "performance_metrics",
                     mcp_tools |-> <<>>,
                     required |-> sl[i].required,
                     estimated_time |-> 0,
                     depends_on |-> sl[i].depends_on]],
      estimated_time |-> et,
      complexity |-> "simple",
      parallel_execution |-> FALSE] :
        sl \in StepLists,
        et \in {0, MaxEstimatedTime, MaxEstimatedTime + 1}}

\* plan_execution_node holds a plan and is about to validate it
ValidateStart ==
    /\ node = "validate_execution_plan"
    /\ s_intent = CHOOSE intent \in Intents : intent.data_sources = <<>>
    /\ s_data_sources = <<>>
    /\ execution_plan = NoPlan
    /\ mcp_results = NoResults
    /\ error = NoError
    /\ new_plan \in AnyPlans
    /\ uuids = 1
    /\ calls = 0
    /\ runs = 1
    /\ first_plan = NoPlan

\* plan_execution_node from validate_execution_plan on
ValidatePlan ==
    /\ node = "validate_execution_plan"
    /\ PlanReturns(s_data_sources, new_plan)
    /\ UNCHANGED <<s_intent, mcp_results, new_plan, uuids, calls, runs,
                   first_plan>>
    /\ UNCHANGED <<qvars, bvars, evars, tvars>>

ValidationNext ==
    \/ ValidatePlan
    \/ PlannerNext

-----------------------------------------------------------------------------
(* Specifications *)

\* nothing enqueued, breaker closed, no plan running
Init == QueueFresh /\ BreakerFresh /\ EngineIdle /\ ToolIdle /\ WorkflowIdle

\* the engine is handed a plan
EngineInit ==
    QueueFresh /\ BreakerFresh /\ EngineStart /\ ToolIdle /\ WorkflowIdle

\* call_tool is entered
ToolInit ==
    QueueFresh /\ BreakerFresh /\ EngineIdle /\ ToolStart /\ WorkflowIdle

QueueSpec == Init /\ [][QueueNext]_vars

BreakerSpec == Init /\ [][BreakerNext]_vars

EngineSpec == EngineInit /\ [][EngineNext]_vars

\* the engine is handed a plan built as a dependency chain
ChainInit ==
    QueueFresh /\ BreakerFresh /\ ChainStart /\ ToolIdle /\ WorkflowIdle

ChainSpec == ChainInit /\ [][ChainNext]_vars

ToolSpec == ToolInit /\ [][ToolNext]_vars

\* execute_parallel_plan is entered
ParallelInit ==
    QueueFresh /\ BreakerFresh /\ ParallelStart /\ ToolIdle /\ WorkflowIdle

\* the data retrieval node validates the results of the plan it has run
RetrievalInit == QueueFresh /\ BreakerFresh /\ RetrievalStart /\ ToolIdle

RetrievalSpec == RetrievalInit /\ [][RetrievalNext]_vars

OutcomeSpec == RetrievalInit /\ [][OutcomeNext]_vars

FaultSpec == Init /\ [][FaultNext]_vars

\* the workflow reaches the planning node
PlannerInit ==
    QueueFresh /\ BreakerFresh /\ EngineIdle /\ ToolIdle /\ PlannerStart

PlannerSpec == PlannerInit /\ [][PlannerNext]_vars

\* the planning node is entered with an intent, or it holds a plan to validate
ValidationInit ==
    QueueFresh /\ BreakerFresh /\ EngineIdle /\ ToolIdle
    /\ (PlannerStart \/ ValidateStart)

ValidationSpec == ValidationInit /\ [][ValidationNext]_vars

ParallelSpec == ParallelInit /\ [][ParallelNext]_vars

\* process_tasks is "while True": every worker keeps taking its next step,
\* and the clock keeps running
DeliverySpec ==
    /\ Init
    /\ [][DeliveryNext]_vars
    /\ WF_vars(Advance)
    /\ \A w \in Workers : WF_vars(WorkerStep(w))

FailingSpec ==
    /\ Init
    /\ [][FailingNext]_vars
    /\ WF_vars(Advance)
    /\ \A w \in Workers : WF_vars(FailingStep(w))

\* the three components side by side
Next ==
    \/ QueueNext
    \/ FaultNext
    \/ BreakerNext
    \/ EngineNext
    \/ ChainNext
    \/ ParallelNext
    \/ ToolNext
    \/ OutcomeNext
    \/ ValidationNext

Spec == EngineInit /\ [][Next]_vars

-----------------------------------------------------------------------------
(* Claims about the task queue, checked under QueueSpec *)

\* C1: a task is never returned by two dequeue calls unless a fail
\* rescheduled it in between (a delayed task is promoted once, not once per
\* concurrently running dequeue).
C1_NoDoubleDelivery == \A i \in TaskIds : returned[i] <= 1

\* number of places a task id occupies in the queue's collections
CountIn(list, i) == Cardinality({k \in DOMAIN list : list[k].id = i})

Places(i) ==
    CountIn(ready, i) + CountIn(processing, i) + CountIn(failed, i)
    + Cardinality({e \in delayed : e.task.id = i})
    + (IF i \in completed THEN 1 ELSE 0)

\* C2: in every reachable state, intermediate ones included, every enqueued
\* task is in exactly one of ready, delayed, processing, completed, failed.
C2_ExactlyOnePlace == \A i \in 1..nextId : Places(i) = 1

\* C3: a task enqueued with max_retries = N is rescheduled on each of its
\* first N failures and reaches the permanent-failure list only on failure
\* N + 1.
C3_TerminalOnFailureNPlusOne ==
    \A k \in DOMAIN failed : fails[failed[k].id] = failed[k].max_retries + 1

\* task i was enqueued on the ready list and no fail has rescheduled it: it
\* has never been in the delayed set
NeverDelayed(i) == i <= nextId /\ target[i] = NotDelayed /\ fails[i] = 0

\* dequeue calls whose brpop has returned task i and that have not returned yet
Popped(i) == {w \in Workers : wpc[w] = "push" /\ cur[w].id = i}

\* C13: of the concurrent dequeue calls that find one task on the ready list
\* (and none in the delayed set) exactly one returns it: the single copy is
\* on the list, or popped by one call, or returned by one call; a call
\* returns none only after brpop found the list empty.
C13_OneReadyTaskOneReturn ==
    /\ [](\A i \in TaskIds :
            NeverDelayed(i)
            => CountIn(ready, i) + Cardinality(Popped(i)) + returned[i] = 1)
    /\ [][\A w \in Workers :
            (wpc[w] = "pop" /\ wpc'[w] = "idle") => ready = <<>>]_vars

C13_Witness ==
    /\ nextId = 1
    /\ NeverDelayed(1)
    /\ returned[1] = 1
    /\ CountIn(processing, 1) = 1
    /\ \E w, v \in Workers :
          /\ wpc[w] = "handle" /\ cur[w].id = 1
          /\ wpc[v] = "pop" /\ ready = <<>>

\* target execution time of a task_json: the score enqueue gave it, or, once a
\* fail has rescheduled it, the time of that fail plus its backoff delay
DueTime(t) ==
    IF t.failed_at = -1 THEN target[t.id] ELSE t.failed_at + BackoffDelay(t)

\* the task_json values that are on the ready list, in a promotion under way,
\* or handed to a dequeue call
Eligible ==
    {ready[k] : k \in DOMAIN ready}
    \cup UNION {{snap[w][k] : k \in DOMAIN snap[w]} : w \in Workers}
    \cup {cur[w] : w \in {v \in Workers : cur[v] # NoTask}}
    \cup {processing[k] : k \in DOMAIN processing}

\* C14: a task put in the delayed set, by enqueue with a delay or by a
\* rescheduling fail, is stored under its target time and is neither on the
\* ready list nor handed to a dequeue call while the current time is earlier
\* than that target time; only a dequeue made at or after it promotes it.
C14_NotBeforeTargetTime ==
    /\ \A e \in delayed : e.score = DueTime(e.task) /\ e.score >= 0
    /\ \A t \in Eligible : DueTime(t) <= now

C14_Witness ==
    /\ \E e, f \in delayed :
          /\ e.task.failed_at = -1 /\ e.score > now
          /\ f.task.failed_at # -1 /\ f.score > now
    /\ \E w \in Workers : wpc[w] = "pop" /\ ready = <<>>

\* (max_retries - remaining)^2 * 10
Quadratic(max_retries, remaining) ==
    (max_retries - remaining) * (max_retries - remaining) * 10

\* worker w's fail_task stores its task in this step and reschedules it
Reschedules(w) ==
    wpc[w] = "fail_store" /\ wpc'[w] = "idle" /\ failed' = failed

CallsFail(w) ==
    /\ wpc[w] \in {"handle", "complete_store"}
    /\ wpc'[w] \in {"fail_notfound", "fail_lrem"}

\* the four collections of the queue are left as they are
CollectionsUnchanged ==
    /\ ready' = ready
    /\ delayed' = delayed
    /\ processing' = processing
    /\ failed' = failed

\* C16: fail called with a task id that is not in the processing list takes
\* the not-found branch, returns False and leaves the ready list, the delayed
\* set, the processing list and the failed list unchanged, also when a task
\* with that id is on the ready list, in the delayed set or in the failed list.
C16_FailUnknownIsNoOp ==
    [][\A w \in Workers :
          /\ (CallsFail(w) /\ CountIn(processing, cur[w].id) = 0)
                => (wpc'[w] = "fail_notfound" /\ CollectionsUnchanged)
          /\ (wpc[w] = "fail_notfound" /\ wpc'[w] # "fail_notfound")
                => /\ CollectionsUnchanged
                   /\ wpc'[w] = "idle"
                   /\ FailTaskReturn(found[w]) = FALSE
      ]_vars

C16_Witness ==
    \E w \in Workers :
        /\ wpc[w] = "fail_notfound"
        /\ CountIn(processing, cur[w].id) = 0
        /\ CountIn(ready, cur[w].id) > 0

\* a fail_task call that found its task in processing stores it and returns
Handled(w) == wpc[w] = "fail_store" /\ wpc'[w] = "idle"

\* C17: the value fail returns for an unknown task id differs from the value
\* returned by every fail call that found its task in processing, whether it
\* rescheduled the task or moved it to the failed list.
C17_NotFoundDistinguishable ==
    [][\A w \in Workers :
          Handled(w) => FailTaskReturn(found[w]) # FailTaskReturn(NoTask)
      ]_vars

\* C31: when tasks of different priorities are in the ready list, dequeue
\* returns the higher-priority task before the lower-priority one, whatever
\* the order in which they were enqueued: the task brpop takes has the highest
\* priority of the ready list.
C31_HigherPriorityFirst ==
    [][\A w \in Workers :
          (wpc[w] = "pop" /\ wpc'[w] = "push")
             => \A k \in DOMAIN ready : ready[k].priority <= cur'[w].priority]_vars

\* the task data stored for id i in the four collections
Stored(i) ==
    {ready[k] : k \in {k \in DOMAIN ready : ready[k].id = i}}
    \cup {e.task : e \in {e \in delayed : e.task.id = i}}
    \cup {processing[k] : k \in {k \in DOMAIN processing : processing[k].id = i}}
    \cup {failed[k] : k \in {k \in DOMAIN failed : failed[k].id = i}}

StoredNext(i) ==
    {ready'[k] : k \in {k \in DOMAIN ready' : ready'[k].id = i}}
    \cup {e.task : e \in {e \in delayed' : e.task.id = i}}
    \cup {processing'[k] :
            k \in {k \in DOMAIN processing' : processing'[k].id = i}}
    \cup {failed'[k] : k \in {k \in DOMAIN failed' : failed'[k].id = i}}

\* no step stores for task i a retry count above every count stored before it
NeverIncreases(i) ==
    (Stored(i) # {} /\ StoredNext(i) # {}) =>
        \A u \in StoredNext(i) :
            \E t \in Stored(i) : u.retry_count <= t.retry_count

\* enqueue stores retry_count = max_retries
EnqueueSetsBudget(i) ==
    (nextId = i - 1 /\ nextId' = i) =>
        \A u \in StoredNext(i) : u.retry_count = u.max_retries

\* a fail that found the task stores what it found with one retry less
FailDecrementsByOne(i) ==
    \A w \in Workers :
        (wpc[w] = "fail_store" /\ wpc'[w] = "idle" /\ found[w].id = i) =>
            \E u \in StoredNext(i) :
                /\ u.retry_count = found[w].retry_count - 1
                /\ u.max_retries = found[w].max_retries

\* every other step stores no new task data with another retry count
OthersKeepCount(i) ==
    (nextId' = nextId
       /\ \A w \in Workers : ~(wpc[w] = "fail_store" /\ found[w].id = i)) =>
        \A u \in StoredNext(i) \ Stored(i) :
            \A t \in Stored(i) : u.retry_count = t.retry_count

\* max_retries of a task is the same in all its stored data, now and next
MaxRetriesFixed(i) ==
    \A t \in Stored(i) \cup StoredNext(i) :
        \A u \in StoredNext(i) : u.max_retries = t.max_retries

\* C34: the remaining retry count stored for a task never increases: it is
\* max_retries at enqueue, goes down by exactly 1 on each fail that finds the
\* task in processing, and is unchanged by dequeue, complete, delayed
\* promotion and fail on another id; max_retries never changes.
C34_RetryCountNeverIncreases ==
    [][\A i \in TaskIds :
          /\ NeverIncreases(i)
          /\ EnqueueSetsBudget(i)
          /\ FailDecrementsByOne(i)
          /\ OthersKeepCount(i)
          /\ MaxRetriesFixed(i)]_vars

\* the number of entries of the processing list that carry task id i
ProcessingCount(list, i) ==
    Cardinality({k \in DOMAIN list : list[k].id = i})

\* worker w executes the lrem of complete_task or fail_task called with id i
RemovesFromProcessing(w, i) ==
    /\ cur[w].id = i
    /\ \/ wpc[w] = "complete_lrem" /\ wpc'[w] = "complete_store"
       \/ wpc[w] = "fail_lrem" /\ wpc'[w] = "fail_store"

\* C35: a task in the processing set leaves it only through complete or fail
\* called with its id: enqueue, dequeue and delayed promotion never move a
\* processing task back to the ready list or the delayed set (every other
\* step leaves the processing list as it is or pushes one more task onto
\* it), so the task of a worker that stops before calling complete or fail
\* stays in processing.
C35_LeavesProcessingOnlyByCompleteOrFail ==
    [][/\ \A i \in TaskIds :
             ProcessingCount(processing', i) < ProcessingCount(processing, i)
                => \E w \in Workers : RemovesFromProcessing(w, i)
       /\ (\A w \in Workers, i \in TaskIds : ~RemovesFromProcessing(w, i))
             => \/ processing' = processing
                \/ /\ processing' # <<>>
                   /\ Tail(processing') = processing]_vars

\* a worker holds a task in processing while a task enqueued later with a
\* delay has been promoted to the ready list
C35_Witness ==
    /\ processing # <<>>
    /\ \E w \in Workers :
          wpc[w] = "handle" /\ FindById(processing, cur[w].id) # NoTask
    /\ \E k \in DOMAIN ready :
          /\ target[ready[k].id] # NotDelayed
          /\ ready[k].id > processing[1].id

\* some worker polling the queue has a handler registered for the type
HasHandlerSomewhere(type) == \E w \in Workers : type \in Handlers(w)

\* C39: when several workers with different registered handler sets poll the
\* same queue, a task whose type has a handler registered in at least one of
\* those workers is never moved to the permanent-failure list without that
\* handler having been executed on it at least once (a worker lacking the
\* handler does not consume the task's retry budget).
C39_FailedOnlyAfterHandlerRan ==
    \A k \in DOMAIN failed :
        HasHandlerSomewhere(failed[k].type) => failed[k].id \in handled

-----------------------------------------------------------------------------
(* Claims about the worker loop when Redis commands raise, checked under     *)
(* FaultSpec                                                                 *)

\* worker w leaves the handler call of task cur[w] without its handler
\* having returned: there is no handler, or the handler raised
HandlerDidNotReturn(w) ==
    /\ wpc[w] = "handle"
    /\ wpc'[w] \notin {"handle", "complete_lrem", "complete_store"}

\* worker w is in fail_task for the task it was handling
InFailFor(w) ==
    /\ wpc'[w] \in {"fail_lrem", "fail_notfound"}
    /\ cur'[w] = cur[w]
    /\ found'[w] = FindById(processing, cur[w].id)

\* C36: the worker's processing loop never terminates because of an error:
\* an exception raised by a handler is caught and routed to fail for that
\* task, a fail on a task no longer in processing is tolerated (it changes
\* no list and the loop goes on), and an error raised by a queue operation
\* (dequeue, complete, fail) is caught, after which the loop resumes polling.
C36_LoopSurvivesErrors ==
    [][\A w \in Workers :
          /\ wpc'[w] # "terminated"
          /\ HandlerDidNotReturn(w) => (InFailFor(w) \/ wpc'[w] = "sleep")
          /\ (wpc[w] = "fail_notfound" /\ wpc'[w] # wpc[w])
                => /\ wpc'[w] = "idle"
                   /\ UNCHANGED <<ready, delayed, processing, failed>>
          /\ (wpc[w] = "sleep" /\ wpc'[w] # wpc[w]) => wpc'[w] = "idle"]_vars

\* one worker's fail_task did not find its task while the other worker is in
\* the outer except clause after a Redis command raised
C36_Witness ==
    \E w, v \in Workers :
       /\ wpc[w] = "fail_notfound"
       /\ wpc[v] = "sleep"
       /\ \E i \in TaskIds : fails[i] > 0

-----------------------------------------------------------------------------
(* Claims about the task queue under fair scheduling, checked under          *)
(* FailingSpec (every handler execution raises) and DeliverySpec             *)

\* no copy of task i is waiting for, or in, an execution
AtRest(i) ==
    /\ CountIn(ready, i) = 0
    /\ \A e \in delayed : e.task.id # i
    /\ \A w \in Workers : cur[w].id # i /\ CountIn(snap[w], i) = 0

\* task i sits in the permanent-failure list and nothing of it is left to run
Settled(i) == CountIn(failed, i) > 0 /\ AtRest(i)

\* the fail_task call that follows an execution finds the task in processing
RoutedToFail ==
    \A w \in Workers :
        wpc[w] = "handle" => FindById(processing, cur[w].id) # NoTask

\* C18: when every execution of a task's handler raises, each failure is
\* handled by a fail that finds the task, the task is executed finitely often
\* and it ends in the permanent-failure list, where it stays.
C18_FailingTaskEndsInFailedList ==
    /\ []RoutedToFail
    /\ \A i \in TaskIds : (i <= nextId) ~> [](Settled(i))

C18_Witness ==
    /\ Settled(1)
    /\ fails[1] = 2
    /\ failed[1].max_retries = 2
    /\ failed[1].retry_count = 0
    /\ now >= 10

\* some dequeue call has returned task i
Delivered(i) == returned[i] > 0 \/ fails[i] > 0

\* C19: with workers that keep calling dequeue and a clock that keeps
\* running, every enqueued task, immediate or delayed, is eventually returned
\* by a dequeue call.
C19_EnqueuedEventuallyReturned ==
    \A i \in TaskIds : (i <= nextId) ~> Delivered(i)

C19_Witness ==
    /\ target[1] # NotDelayed
    /\ now >= target[1]
    /\ returned[1] = 1
    /\ fails[1] = 0
    /\ \E w \in Workers : wpc[w] = "handle" /\ cur[w].id = 1

-----------------------------------------------------------------------------
(* Claims about the circuit breaker, checked under BreakerSpec *)

\* C4: while the trial call admitted by the open -> half-open transition is
\* in flight and the state is half-open, no other call is let through to the
\* wrapped function.
C4_SingleTrialInFlight ==
    \A c, d \in Callers :
        (/\ c # d
         /\ breaker.state = "half-open"
         /\ cpc[c] = "in_call" /\ cadm[c] = "trial"
         /\ cpc[d] = "in_call")
        => cadm[d] # "half-open"

\* C8: the breaker is open or half-open only with failure_count at or above
\* the threshold, and it is closed only below the threshold, so it leaves
\* closed exactly on the failure that brings the count to the threshold.
C8_OpenExactlyAtThreshold ==
    /\ breaker.state \in {"open", "half-open"}
          => breaker.failure_count >= FailureThreshold
    /\ breaker.state = "closed" => breaker.failure_count < FailureThreshold

C8_Witness ==
    /\ breaker.state = "open"
    /\ breaker.failure_count = FailureThreshold
    /\ \E c \in Callers : cres[c] = "mcp_error" /\ cadm[c] = "closed"

\* the recovery timeout has not elapsed since the last recorded failure
BeforeTimeout ==
    /\ breaker.last_failure_time # NoTime
    /\ clock - breaker.last_failure_time < RecoveryTimeout

\* caller c took a step of call
Acted(c) == cpc'[c] # cpc[c] \/ cres'[c] # cres[c] \/ cadm'[c] # cadm[c]

\* C9: a call made while the breaker is open and the recovery timeout has not
\* elapsed raises the unavailability error, does not invoke the wrapped
\* function and leaves the breaker untouched; open -> half-open happens only
\* once the timeout has elapsed.
C9_FailFastWhileOpen ==
    [][/\ \A c \in Callers :
             (cpc[c] = "idle" /\ breaker.state = "open" /\ BeforeTimeout
              /\ Acted(c))
             => /\ cres'[c] = "unavailable"
                /\ cpc'[c] = "idle"
                /\ breaker' = breaker
       /\ (breaker.state = "open" /\ breaker'.state = "half-open")
             => /\ breaker.last_failure_time # NoTime
                /\ clock - breaker.last_failure_time >= RecoveryTimeout
      ]_vars

C9_Witness ==
    /\ breaker.state = "open"
    /\ BeforeTimeout
    /\ \E c \in Callers : cres[c] = "unavailable" /\ cpc[c] = "idle"
    /\ \E d \in Callers : cadm[d] = "trial"

\* C10: right after a call whose wrapped function returned, admitted in closed
\* or in half-open, failure_count is 0 and the state is closed.
C10_SuccessCloses ==
    [][\A c \in Callers :
          (cpc[c] = "in_call" /\ cpc'[c] = "idle" /\ cres'[c] = "ok")
          => /\ breaker'.failure_count = 0
             /\ breaker'.state = "closed"
      ]_vars

C10_Witness ==
    /\ breaker.state = "closed"
    /\ breaker.failure_count = 0
    /\ \E c, d \in Callers :
          /\ cres[c] = "ok" /\ cadm[c] = "closed"
          /\ cres[d] = "ok" /\ cadm[d] = "trial"

\* the call of caller c ends in this step with the given outcome
Ends(c, outcome) ==
    cpc[c] = "in_call" /\ cpc'[c] = "idle" /\ cres'[c] = outcome

\* C11: when the wrapped function raises a guarded exception while the state
\* is half-open, the state is open right after the call and last_failure_time
\* is the time of that failure, so a full recovery timeout has to elapse
\* again before the next trial.
C11_HalfOpenFailureReopens ==
    [][\A c \in Callers :
          (Ends(c, "mcp_error") /\ breaker.state = "half-open")
          => /\ breaker'.state = "open"
             /\ breaker'.last_failure_time = clock
             /\ clock' - breaker'.last_failure_time < RecoveryTimeout
      ]_vars

C11_Witness ==
    /\ breaker.state = "open"
    /\ breaker.failure_count = FailureThreshold + 1
    /\ breaker.last_failure_time = clock
    /\ clock >= RecoveryTimeout
    /\ \E c \in Callers :
          /\ cadm[c] = "trial" /\ cres[c] = "mcp_error"
          /\ \A d \in Callers \ {c} : cadm[d] = "none"

\* C12: an exception of the wrapped function that is not of the guarded type
\* reaches the caller and leaves failure_count, last_failure_time and state
\* as they were; a half-open breaker stays half-open.
C12_OtherExceptionUncounted ==
    [][\A c \in Callers :
          Ends(c, "other_error")
          => /\ breaker'.failure_count = breaker.failure_count
             /\ breaker'.last_failure_time = breaker.last_failure_time
             /\ breaker'.state = breaker.state
      ]_vars

C12_Witness ==
    /\ breaker.state = "half-open"
    /\ breaker.failure_count = FailureThreshold
    /\ \E c \in Callers :
          /\ cadm[c] = "trial" /\ cres[c] = "other_error" /\ cpc[c] = "idle"
          /\ \A d \in Callers \ {c} : cadm[d] = "none"

\* caller c's wrapped function returns in this step
ReturnsNow(c) == cpc[c] = "in_call" /\ cpc'[c] = "idle" /\ cres'[c] = "ok"

\* C37: once the breaker is open, its state becomes closed, and its failure
\* count is reset, only through a call that was admitted after the recovery
\* timeout (as the half-open trial, or while that trial was in flight) and
\* then succeeded: a call admitted while the breaker was still closed that
\* returns after the breaker has opened does not close it or reset its count.
C37_OnlyTrialCloses ==
    [][(/\ breaker.state \in {"open", "half-open"}
        /\ \/ breaker'.state = "closed"
           \/ breaker'.failure_count < breaker.failure_count)
          => \E c \in Callers :
                ReturnsNow(c) /\ cadm[c] \in {"trial", "half-open"}]_vars

-----------------------------------------------------------------------------
(* Claims about the execution engine, checked under EngineSpec *)

\* C5: the shared session, once acquired, is never released by the end of a
\* tool call or of a plan step.
C5_SessionNeverReleased ==
    [][session # NoSession => session' = session]_vars

\* a required step whose recorded result is unsuccessful
RequiredFailure(i) ==
    results[i].present /\ plan[i].required /\ ~results[i].success

\* C6: in sequential mode, once a required step has failed, no tool call of a
\* later step is invoked, later steps have no entry in the result map, and
\* every earlier step has its result recorded.
C6_RequiredFailureStops ==
    \A i \in DOMAIN plan :
        RequiredFailure(i) =>
            /\ \A j \in 1..nsteps :
                  j > i => /\ ~results[j].present
                           /\ j \notin DOMAIN plan
                           /\ \A k \in 1..MaxTools : <<j, k>> \notin invoked
            /\ \A j \in 1..nsteps : j < i => results[j].present

C6_Witness ==
    /\ epc = "done"
    /\ nsteps = 2
    /\ RequiredFailure(1)
    /\ results[1].tool_results = 2
    /\ ~results[2].present
    /\ invoked = {<<1, 1>>, <<1, 2>>}

\* C7: the result returned by execute_step has success = true exactly when
\* at least one of its tool calls succeeded, whatever happened to the others.
C7_SuccessIffSomeToolSucceeded ==
    \A i \in DOMAIN plan :
        (results[i].present /\ "execution_time" \in results[i].keys)
        => (results[i].success
              <=> \E k \in DOMAIN results[i].data : results[i].data[k].success)

\* every dependency of the step at position i had a successful result in the
\* result map when the loop reached the step (results are recorded in plan
\* order and never rewritten, so only earlier steps can have had one)
DependenciesMet(i) ==
    \A d \in plan[i].depends_on :
        d < i /\ results[d].present /\ results[d].success

\* the tool calls of the step at position i that have been invoked
InvokedOf(i) == {c \in invoked : c[1] = i}

\* C21: in sequential mode a step is run only if every id in its dependency
\* list is in the result map with a successful result; otherwise the step is
\* recorded as a failure with error "Dependencies not met" and none of its
\* tool calls is invoked.
C21_DependenciesGateSteps ==
    \A i \in DOMAIN plan :
        IF DependenciesMet(i)
        THEN results[i] # DepFailure
        ELSE /\ results[i] = DepFailure
             /\ results[i].error = "Dependencies not met"
             /\ InvokedOf(i) = {}

\* the second step depends on the first, which was optional, ran both its tool
\* calls and failed: the second step is a dependency failure, nothing invoked
C21_Witness ==
    /\ epc = "done"
    /\ nsteps = 2
    /\ plan[1].depends_on = {}
    /\ ~plan[1].required
    /\ results[1].present /\ ~results[1].success
    /\ InvokedOf(1) = {<<1, 1>>, <<1, 2>>}
    /\ plan[2].depends_on = {1}
    /\ plan[2].mcp_tools = 2
    /\ results[2] = DepFailure
    /\ InvokedOf(2) = {}

\* the fields of an entry of the engine's result map
ResultFields ==
    {"success", "data", "execution_time", "tool_results", "successful_tools"}

\* C32: every entry of the map the execution engine returns, for succeeded
\* steps, failed steps, steps that raised and steps with unmet dependencies
\* alike, carries the five fields success, data, execution_time, tool_results
\* and successful_tools.
C32_EntriesCarryFiveFields ==
    \A i \in DOMAIN results :
        results[i].present => ResultFields \subseteq results[i].keys

-----------------------------------------------------------------------------
(* Claims about the execution engine in parallel mode, checked under         *)
(* ParallelSpec                                                              *)

\* execute_parallel_plan has returned
ParallelDone == epc = "done" /\ DOMAIN ptask = 1..nsteps

\* all the tool calls of the step at position i
ToolCallsOf(i) == {<<i, k>> : k \in 1..plan[i].mcp_tools}

\* C22: in parallel mode one task is launched per step and all are awaited:
\* the result map has exactly one entry per step, an exception raised by one
\* step's task becomes a failed result for that step only, and every sibling
\* step still runs all its tool calls to completion, whatever happens in the
\* other steps (a step is cut short only by an exception that one of its own
\* requests ends in).
C22_ParallelStepsIndependent ==
    ParallelDone =>
        /\ DOMAIN results = 1..nsteps
        /\ \A i \in 1..nsteps :
              /\ results[i].present
              /\ ptask[i].exc => /\ results[i] = RaisedResult
                                 /\ \A j \in 1..nsteps :
                                       ~ptask[j].exc => results[j] = ptask[j].out
              /\ (plan[i].mcp_tools # NoKey /\ results[i].error # "exception")
                    => /\ InvokedOf(i) = ToolCallsOf(i)
                       /\ results[i].tool_results = plan[i].mcp_tools

\* the task of step i issues a request in this step: the first attempt of a
\* tool call, or the next attempt when its backoff sleep is over
IssuesRequest(i) ==
    \/ ptask[i].pc = "tool" /\ ptask'[i].pc = "request"
    \/ ptask[i].pc = "sleep" /\ ptask'[i].pc # "sleep"

\* the task of step i is inside call_tool, between two attempts
BetweenAttempts(i) == ptask[i].pc = "sleep" /\ ptask'[i].pc = "sleep"

\* C38: during parallel execution, whenever a step issues a request (first
\* attempt or a retry after backoff), the shared client session it uses is
\* open: the completion of a sibling step never closes or clears the session
\* between another step's session acquisition at the start of call_tool and
\* that step's requests.
C38_SessionOpenAtEveryRequest ==
    [][\A i \in 1..nsteps :
          /\ IssuesRequest(i) => session # NoSession \/ ptask[i].pc = "tool"
          /\ BetweenAttempts(i) => (session # NoSession => session' # NoSession)
      ]_vars

-----------------------------------------------------------------------------
(* Claims about the sequential engine on dependency chains, checked under    *)
(* ChainSpec                                                                 *)

\* the step at position i has been recorded with an unsuccessful result
Unsuccessful(i) == results[i].present /\ ~results[i].success

\* the step at position j has been recorded
RecordedStep(j) == j \in DOMAIN plan /\ results[j].present

\* C40: in a sequential plan built as a linear dependency chain, once any
\* step (required or optional) has an unsuccessful result, no tool call of
\* any later step is invoked: each later optional step is recorded as
\* "Dependencies not met" and the loop goes on, and execution stops at the
\* first later required step, which is recorded the same way.
C40_ChainStopsAfterFailure ==
    \A i \in 1..nsteps : \A j \in (i + 1)..nsteps :
        Unsuccessful(i) =>
            /\ InvokedOf(j) = {}
            /\ RecordedStep(j) => results[j] = DepFailure
            /\ (RecordedStep(j) /\ plan[j].required)
                  => /\ epc = "done"
                     /\ si = j
                     /\ \A m \in (j + 1)..nsteps : ~results[m].present
            /\ (RecordedStep(j) /\ ~plan[j].required /\ j < nsteps)
                  => si > j

\* a chain of three steps: the optional first step ran a tool call and
\* failed, the optional second step and the required third step were
\* recorded as "Dependencies not met", and the loop has ended
C40_Witness ==
    /\ nsteps = 3
    /\ epc = "done"
    /\ Len(plan) = 3
    /\ ~plan[1].required /\ InvokedOf(1) # {} /\ Unsuccessful(1)
    /\ ~plan[2].required /\ results[2] = DepFailure
    /\ plan[3].required /\ results[3] = DepFailure

-----------------------------------------------------------------------------
(* Claims about the data retrieval node, checked under RetrievalSpec *)

\* the step at position i succeeded
Succeeded(i) == results[i].present /\ results[i].success

\* the step at position i holds a successful tool call with non-empty data
CarriesData(i) ==
    \E k \in DOMAIN results[i].data :
        results[i].data[k].success /\ results[i].data[k].data

\* at least one step succeeded and at least one successful step carries data
Usable ==
    /\ \E i \in 1..nsteps : Succeeded(i)
    /\ \E i \in 1..nsteps : Succeeded(i) /\ CarriesData(i)

\* C23: the result set is accepted by post-execution validation exactly when
\* at least one step succeeded and at least one successful step contains a
\* successful tool call with non-empty data; partial execution that satisfies
\* this is returned as results with no error set.
C23_AcceptedIffUsable ==
    node \in {"format_results", "handle_error"} =>
        IF Usable
        THEN /\ node = "format_results"
             /\ mcp_results = results
             /\ error = NoError
        ELSE /\ node = "handle_error"
             /\ mcp_results = NoResults
             /\ error # NoError
             /\ error[1] = "Data retrieval validation failed: "

\* partial execution: the first step failed with its one tool call, the second
\* succeeded with one of its two tool calls; the results are returned
C23_Witness ==
    /\ node = "format_results"
    /\ nsteps = 2
    /\ results[1].present /\ ~results[1].success
    /\ results[1].tool_results = 1
    /\ results[2].success
    /\ results[2].tool_results = 2
    /\ results[2].successful_tools = 1
    /\ mcp_results = results
    /\ error = NoError

-----------------------------------------------------------------------------
(* Claims about the outcome the data retrieval node reports, checked under   *)
(* OutcomeSpec                                                               *)

\* the tool results recorded in the results map, as <<step, tool>> positions
Recorded ==
    {<<i, k>> \in (1..nsteps) \X (1..MaxTools) :
        results[i].present /\ k \in DOMAIN results[i].data}

\* tool calls were made and every one of them errored
EveryToolCallErrored ==
    /\ Recorded # {}
    /\ \A ik \in Recorded : ~results[ik[1]].data[ik[2]].success

\* tool calls were made, every one of them succeeded (no step was cut short
\* by an exception) and none returned data
SucceededWithoutData ==
    /\ Recorded # {}
    /\ \A ik \in Recorded :
          /\ results[ik[1]].data[ik[2]].success
          /\ ~results[ik[1]].data[ik[2]].data
          /\ "error" \notin results[ik[1]].keys

\* state["error"] is a validation failure / an execution failure
ValidationFailure ==
    error # NoError /\ error[1] = "Data retrieval validation failed: "

ExecutionFailure == error # NoError /\ error[1] = "Data retrieval failed: "

\* C33: the reported outcome lets the caller distinguish the case where
\* every tool call errored from the case where tool calls succeeded but
\* returned no data, and reports a rejected result set as a validation
\* failure that is distinct from an execution failure (an exception escaping
\* plan execution).
C33_OutcomesDistinguishable ==
    node \in {"format_results", "handle_error"} =>
        /\ ValidationFailure <=> (epc = "done" /\ ~Usable)
        /\ ExecutionFailure <=> epc = "raised"
        /\ (epc = "done" /\ EveryToolCallErrored)
              => error = <<"Data retrieval validation failed: ",
                           "No steps completed successfully">>
        /\ (epc = "done" /\ SucceededWithoutData)
              => /\ error = <<"Data retrieval validation failed: ",
                              "No data found in results">>
                 /\ ~EveryToolCallErrored

\* two steps whose three tool calls all succeeded with empty data: reported
\* as a validation failure for want of data
C33_Witness ==
    /\ node = "handle_error"
    /\ epc = "done"
    /\ SucceededWithoutData
    /\ Cardinality(Recorded) = 3
    /\ ValidationFailure
    /\ error[2] = "No data found in results"

-----------------------------------------------------------------------------
(* Claims about the query planner and the workflow around it, checked under  *)
(* PlannerSpec                                                               *)

\* both runs of the workflow on the intent have created a plan
PlannedTwice == runs = 2 /\ first_plan # NoPlan /\ new_plan # NoPlan

\* C24: planning is deterministic: two runs of the planner on the identical
\* intent and the identical mapping table produce execution plans identical
\* in every field (plan id, step order, step ids, tool arguments including
\* start and end dates, estimated time, complexity label, parallel flag).
C24_PlannerDeterministic == PlannedTwice => new_plan = first_plan

\* the positions of the intent's data-source names that yield a data source
ResolvedAt ==
    {k \in DOMAIN s_intent.data_sources :
        Resolves(s_intent.data_sources[k], s_intent)}

\* number of tool calls of the data source of a name: the templates of the
\* table that apply to the intent's type
Applicable(source_name) ==
    Cardinality({j \in DOMAIN McpMapping[source_name].tools :
                    s_intent.intent_type
                        \in McpMapping[source_name].tools[j].intent_types})

\* the planner has built a plan in this run
Planned == new_plan # NoPlan

\* C26: the planner marks a plan parallel exactly when it has more than one
\* resolved data source and every data source is optional or has exactly one
\* tool call; a plan with a single data source, or with a required data source
\* of two or more tool calls, is sequential.
C26_ParallelIffIndependent ==
    Planned =>
        (new_plan.parallel_execution
           <=> /\ Cardinality(ResolvedAt) > 1
               /\ \A k \in ResolvedAt :
                     \/ ~McpMapping[s_intent.data_sources[k]].required
                     \/ Applicable(s_intent.data_sources[k]) = 1)

\* a parallel plan of two data sources, one required with one tool call and
\* one optional with two
C26_Witness ==
    /\ Planned
    /\ new_plan.parallel_execution
    /\ Len(new_plan.steps) = 2
    /\ \E i, j \in DOMAIN new_plan.steps :
          /\ new_plan.steps[i].required
          /\ Len(new_plan.steps[i].mcp_tools) = 1
          /\ ~new_plan.steps[j].required
          /\ Len(new_plan.steps[j].mcp_tools) = 2

\* the table's priority of the data source of a step
SourcePriority(step) == McpMapping[step.data_source].priority

\* C27: every plan the planner builds has one step per resolved data source,
\* with distinct step ids, in descending order of data-source priority; in a
\* sequential plan the first step has no dependency and every other step
\* depends on exactly the step before it; in a parallel plan no step has a
\* dependency.
C27_PlanIsChainOrFlat ==
    Planned =>
        LET steps == new_plan.steps
        IN /\ Len(steps) = Cardinality(ResolvedAt)
           /\ \A name \in DOMAIN McpMapping :
                 Cardinality({i \in DOMAIN steps : steps[i].data_source = name})
                   = Cardinality({k \in ResolvedAt :
                                    s_intent.data_sources[k] = name})
           /\ \A i, j \in DOMAIN steps :
                 i # j => steps[i].step_id # steps[j].step_id
           /\ \A i, j \in DOMAIN steps :
                 i < j => SourcePriority(steps[i]) >= SourcePriority(steps[j])
           /\ \A i \in DOMAIN steps :
                 steps[i].depends_on =
                    IF new_plan.parallel_execution \/ i = 1 THEN {}
                    ELSE {steps[i - 1].step_id}

\* a sequential plan of three steps, and one of two steps whose order is not
\* the order of the intent's names
C27_Witness ==
    /\ Planned
    /\ ~new_plan.parallel_execution
    /\ \/ /\ Len(new_plan.steps) = 2
          /\ new_plan.steps[1].data_source = s_intent.data_sources[2]
          /\ new_plan.steps[2].data_source = s_intent.data_sources[1]
          /\ SourcePriority(new_plan.steps[1]) > SourcePriority(new_plan.steps[2])
          /\ new_plan.steps[2].depends_on = {new_plan.steps[1].step_id}
       \/ /\ Len(new_plan.steps) = 3
          /\ new_plan.steps[3].depends_on = {new_plan.steps[2].step_id}

\* the names of the templates of a data source that apply to the intent's type
ApplicableTools(source_name) ==
    {McpMapping[source_name].tools[j].name :
        j \in {j \in DOMAIN McpMapping[source_name].tools :
                  s_intent.intent_type
                      \in McpMapping[source_name].tools[j].intent_types}}

\* the planning node of the run has returned
PlannerReturned == node # "plan_execution"

\* C29: a data-source name of the intent that is absent from the mapping
\* table is skipped without failing planning: planning fails for lack of data
\* sources only when no requested name yields a data source, and otherwise
\* the plan has steps exactly for the requested names that are in the table
\* and have at least one tool template applicable to the intent type.
C29_UnknownSourcesSkipped ==
    PlannerReturned =>
        /\ error = <<"No suitable data sources found for this query">>
              <=> ResolvedAt = {}
        /\ ResolvedAt = {} => ~Planned
        /\ ResolvedAt # {} =>
              /\ Planned
              /\ Len(new_plan.steps) = Cardinality(ResolvedAt)
              /\ {new_plan.steps[i].data_source : i \in DOMAIN new_plan.steps}
                    = {s_intent.data_sources[k] : k \in ResolvedAt}
              /\ \A i \in DOMAIN new_plan.steps :
                    LET step == new_plan.steps[i]
                    IN {step.mcp_tools[j].tool_name : j \in DOMAIN step.mcp_tools}
                         = ApplicableTools(step.data_source)

\* an intent names an unknown data source before a known one, and the plan of
\* the known one has been accepted
C29_Witness ==
    /\ PlannerReturned
    /\ Len(s_intent.data_sources) = 2
    /\ s_intent.data_sources[1] \notin DOMAIN McpMapping
    /\ s_intent.data_sources[2] \in DOMAIN McpMapping
    /\ Planned
    /\ Len(new_plan.steps) = 1
    /\ new_plan.steps[1].data_source = s_intent.data_sources[2]
    /\ execution_plan = new_plan
    /\ error = NoError

-----------------------------------------------------------------------------
(* Claims about plan validation, checked under ValidationSpec *)

\* a step of p names a dependency id that no step of p has
DanglingDependency(p) ==
    \E i \in DOMAIN p.steps :
        \E dep \in p.steps[i].depends_on :
            \A j \in DOMAIN p.steps : p.steps[j].step_id # dep

\* the four conditions of a feasible plan
Feasible(p) ==
    /\ Len(p.steps) >= 1
    /\ p.estimated_time <= 300
    /\ ~DanglingDependency(p)
    /\ \E i \in DOMAIN p.steps : p.steps[i].required

\* the planning node has validated the plan it holds
Validated == new_plan # NoPlan /\ node # "validate_execution_plan"

\* state["error"] is the planner's rejection of the plan, with a reason
RejectedWithReason ==
    /\ Len(error) = 2
    /\ error[1] = "Invalid execution plan: "
    /\ error[2] \notin {"", "Plan is valid"}

PlanningDone == node \notin {"plan_execution", "validate_execution_plan"}

\* the planning stage of the run has failed: it left no execution plan
PlanningFailed == PlanningDone /\ execution_plan = NoPlan

\* C28: in a workflow run whose planning stage fails (no data source
\* resolves, or validation rejects the plan), no remote tool call is ever
\* issued: the execution stage is entered only when the state holds an
\* execution plan and no error.
C28_FailedPlanningIssuesNoCall ==
    /\ PlanningFailed => calls = 0 /\ node # "execute_data_retrieval"
    /\ node = "execute_data_retrieval" =>
          execution_plan # NoPlan /\ error = NoError

\* a run has ended whose plan was rejected by validation, without a tool call
C28_Witness ==
    /\ PlanningFailed
    /\ node = "END"
    /\ new_plan # NoPlan
    /\ RejectedWithReason
    /\ calls = 0

-----------------------------------------------------------------------------
(* Claims about the errors the engine records, checked under BreakerSpec *)

\* the last tool call of caller c ended in an MCPError that execute_step
\* recorded
RecordedFailure(c) == cres[c] \in {"unavailable", "mcp_error"}

\* C30: the error the breaker raises when it fails fast (open, timeout not
\* elapsed) is distinguishable by the caller from the error raised for a
\* genuine remote failure (call_tool exhausted its attempts): two recorded
\* tool-call failures that read the same have the same cause, and every
\* recorded failure has a text.
C30_FailFastDistinguishable ==
    \A c, d \in Callers :
        /\ RecordedFailure(c) => recorded[c] # NoText
        /\ (RecordedFailure(c) /\ RecordedFailure(d)
              /\ recorded[c] = recorded[d]) => cres[c] = cres[d]

\* one caller was failed fast while the record of another holds a remote
\* failure whose server message is the breaker's sentence
C30_Witness ==
    \E c, d \in Callers :
        /\ cres[c] = "unavailable" /\ cadm[c] = "rejected"
        /\ recorded[c] = BreakerOpenText
        /\ cres[d] = "mcp_error"
        /\ \E attempts \in AttemptCounts :
              recorded[d]
                = ExhaustedText(attempts, RpcErrorText(BreakerOpenText))

-----------------------------------------------------------------------------
(* Claims about the MCP client, checked under ToolSpec *)

\* the failures after which the call is to be retried: transport error,
\* timeout, malformed response, non-200 status, explicit error field,
\* missing result
Failures == Outcomes \ {"ok"}

\* C20: call_tool with retry count r posts at most r + 1 requests; it returns
\* on the first successful request and posts none after it; after a failed
\* request (transport error, timeout, malformed response, non-200 status,
\* error field, missing result) it goes on to the next attempt, and only when
\* all r + 1 requests have failed does it raise, one MCPError that embeds the
\* last underlying error.
C20_CallToolContract ==
    /\ Len(requests) <= retries + 1
    /\ \A k \in 1..(Len(requests) - 1) : requests[k] \in Failures
    /\ tpc = "returned" => requests[Len(requests)] = "ok"
    /\ tpc = "raised"
          => /\ Len(requests) = retries + 1
             /\ \A k \in DOMAIN requests : requests[k] \in Failures
             /\ raised = "MCPError"
             /\ message = requests[Len(requests)]

====
